---- MODULE Spec2Model ----
(***************************************************************************)
(* Routine builder and analyzer of the skincare advisor                    *)
(* (src/src/routines/builder.py) and the question-answering advisor        *)
(* (src/backend/app/api/v1/advisor.py) over the ingredient knowledge graph.*)
(*                                                                         *)
(* A caller assembles a list of products ({name, ingredients}), then       *)
(* either has build_routine sort it into a routine and analyze it, or has  *)
(* analyze_routine diagnose the list as a routine in the order given, or   *)
(* hands the ingredient lists to the RoutineAnalyzer.  suggest_routine     *)
(* turns the knowledge graph's recommendations for a profile into a        *)
(* routine outline, and the advisor answers a question in words.           *)
(* Optional values (an absent ingredient, interaction or profile) are      *)
(* sequences of length 0 or 1.                                             *)
(***************************************************************************)
EXTENDS Integers, Sequences, FiniteSets, TLC

VARIABLES products, time, profile, pc, routine, analysis, reanalysis,
          recommended, suggested, report, question, phrases, reply, calls

builderVars == <<products, time, profile, pc, routine, analysis, reanalysis>>
suggestVars == <<recommended, suggested>>
advisorVars == <<question, phrases, reply, calls>>

vars == <<products, time, profile, pc, routine, analysis, reanalysis,
          recommended, suggested, report, question, phrases, reply, calls>>

\* Bounds of the explored inputs.
MaxProducts == 3
MaxIngredients == 3
MaxRecommended == 6
MaxPhrases == 4

----------------------------------------------------------------------------
\* Knowledge graph (knowledge.ingredients): catalog, interactions, queries.

KnownIds ==
    {"retinol", "vitamin_c", "benzoyl_peroxide", "ceramides", "spf",
     "niacinamide", "hyaluronic_acid", "salicylic_acid"}

\* The ids the callers of the builder pass; "mystery" is not in the catalog.
Ids == {"retinol", "vitamin_c", "benzoyl_peroxide", "ceramides", "spf", "mystery"}

\* The ingredient records, by id.
CatalogTable ==
    "retinol" :>
        [id |-> "retinol", name |-> "Retinol", category |-> "retinoid",
         time_of_day |-> "PM_ONLY", application_order |-> 5,
         aliases |-> <<"retinoid">>,
         addresses_concerns |-> <<"aging", "acne">>,
         caution_skin_types |-> <<"sensitive">>]
    @@ "vitamin_c" :>
        [id |-> "vitamin_c", name |-> "Vitamin C", category |-> "serum_active",
         time_of_day |-> "AM_ONLY", application_order |-> 3,
         aliases |-> <<"ascorbic acid">>,
         addresses_concerns |-> <<"aging">>,
         caution_skin_types |-> <<>>]
    @@ "benzoyl_peroxide" :>
        [id |-> "benzoyl_peroxide", name |-> "Benzoyl Peroxide",
         category |-> "acne_treatment",
         time_of_day |-> "EITHER", application_order |-> 4,
         aliases |-> <<"bpo">>,
         addresses_concerns |-> <<"acne">>,
         caution_skin_types |-> <<"sensitive", "dry">>]
    @@ "ceramides" :>
        [id |-> "ceramides", name |-> "Ceramides", category |-> "ceramide",
         time_of_day |-> "EITHER", application_order |-> 8,
         aliases |-> <<>>,
         addresses_concerns |-> <<"dryness", "aging">>,
         caution_skin_types |-> <<>>]
    @@ "spf" :>
        [id |-> "spf", name |-> "Sunscreen", category |-> "sunscreen",
         time_of_day |-> "AM_ONLY", application_order |-> 10,
         aliases |-> <<"sunblock">>,
         addresses_concerns |-> <<"aging">>,
         caution_skin_types |-> <<>>]
    @@ "niacinamide" :>
        [id |-> "niacinamide", name |-> "Niacinamide",
         category |-> "serum_active",
         time_of_day |-> "EITHER", application_order |-> 4,
         aliases |-> <<"vitamin b3">>,
         addresses_concerns |-> <<"acne", "aging">>,
         caution_skin_types |-> <<>>]
    @@ "hyaluronic_acid" :>
        [id |-> "hyaluronic_acid", name |-> "Hyaluronic Acid",
         category |-> "serum_water",
         time_of_day |-> "EITHER", application_order |-> 4,
         aliases |-> <<"hyaluronan">>,
         addresses_concerns |-> <<"dryness", "aging">>,
         caution_skin_types |-> <<>>]
    @@ "salicylic_acid" :>
        [id |-> "salicylic_acid", name |-> "Salicylic Acid",
         category |-> "acne_treatment",
         time_of_day |-> "EITHER", application_order |-> 3,
         aliases |-> <<"bha">>,
         addresses_concerns |-> <<"acne">>,
         caution_skin_types |-> <<"dry">>]

Catalog(id) == CatalogTable[id]

\* One record per unordered pair.
Interactions ==
    { [ingredient_a |-> "retinol", ingredient_b |-> "vitamin_c",
       kind |-> "CAUTION", wait_minutes |-> 20,
       recommendation |-> "Use on alternate nights."],
      [ingredient_a |-> "retinol", ingredient_b |-> "benzoyl_peroxide",
       kind |-> "CONFLICT", wait_minutes |-> 0,
       recommendation |-> "Benzoyl peroxide deactivates retinol."],
      [ingredient_a |-> "benzoyl_peroxide", ingredient_b |-> "vitamin_c",
       kind |-> "CONFLICT", wait_minutes |-> 30,
       recommendation |-> "Benzoyl peroxide oxidizes vitamin C."],
      [ingredient_a |-> "vitamin_c", ingredient_b |-> "spf",
       kind |-> "SYNERGY", wait_minutes |-> 0,
       recommendation |-> "Vitamin C boosts sun protection."],
      [ingredient_a |-> "ceramides", ingredient_b |-> "retinol",
       kind |-> "SYNERGY", wait_minutes |-> 0,
       recommendation |-> "Ceramides buffer retinol irritation."],
      [ingredient_a |-> "ceramides", ingredient_b |-> "spf",
       kind |-> "NEUTRAL", wait_minutes |-> 0,
       recommendation |-> ""] }

\* The elements of a list.
Range(xs) == { xs[k] : k \in DOMAIN xs }

\* str.lower() on the words written with a capital.
LowerTable ==
    "Retinol" :> "retinol"
    @@ "Vitamin C" :> "vitamin c"
    @@ "Benzoyl Peroxide" :> "benzoyl peroxide"
    @@ "Ceramides" :> "ceramides"
    @@ "Sunscreen" :> "sunscreen"
    @@ "Niacinamide" :> "niacinamide"
    @@ "Hyaluronic Acid" :> "hyaluronic acid"
    @@ "Salicylic Acid" :> "salicylic acid"
    @@ "How" :> "how"
    @@ "With" :> "with"
    @@ "What" :> "what"
    @@ "Best" :> "best"
    @@ "Mystery" :> "mystery"
    @@ "Acne" :> "acne"

Lower(s) == IF s \in DOMAIN LowerTable THEN LowerTable[s] ELSE s

\* Every display name, lowered, and every alias of the catalog.
NameKeys ==
    UNION { {Lower(Catalog(id).name)} \cup Range(Catalog(id).aliases) :
              id \in KnownIds }

\* The catalog ids whose display name, lowered, or one of whose aliases is
\* the lowered key.
NamedBy(key) ==
    { id \in KnownIds :
        \/ Lower(Catalog(id).name) = Lower(key)
        \/ \E k \in DOMAIN Catalog(id).aliases :
              Catalog(id).aliases[k] = Lower(key) }

\* get_ingredient(key): the catalog record with that id, display name
\* (whatever the case) or alias, or nothing.
get_ingredient(id) ==
    IF id \in KnownIds THEN <<Catalog(id)>>
    ELSE IF Lower(id) \notin NameKeys THEN <<>>
    ELSE <<Catalog(CHOOSE k \in NamedBy(id) : TRUE)>>

\* get_interaction(a, b): the record of the unordered pair, or nothing.
get_interaction_directed(id_a, id_b) ==
    LET hits == { r \in Interactions :
                    r.ingredient_a = id_a /\ r.ingredient_b = id_b }
    IN  IF hits = {} THEN <<>> ELSE <<CHOOSE r \in hits : TRUE>>
get_interaction(id_a, id_b) ==
    LET hits == { r \in Interactions :
                    \/ r.ingredient_a = id_a /\ r.ingredient_b = id_b
                    \/ r.ingredient_a = id_b /\ r.ingredient_b = id_a }
    IN  IF hits = {} THEN <<>> ELSE <<CHOOSE r \in hits : TRUE>>

\* The entry check_compatibility reports for positions i < j of the list.
PairEntry(ids, i, j) ==
    LET r == get_interaction(ids[i], ids[j])[1]
    IN  [ingredient_a |-> ids[i], ingredient_b |-> ids[j],
         kind |-> r.kind, wait_minutes |-> r.wait_minutes,
         recommendation |-> r.recommendation]

\* Every pair of positions i < j, in the order of a nested loop.
RECURSIVE PairsFrom(_, _, _)
PairsFrom(i, j, n) ==
    IF i >= n THEN <<>>
    ELSE IF j > n THEN PairsFrom(i + 1, i + 2, n)
    ELSE <<<<i, j>>>> \o PairsFrom(i, j + 1, n)

RECURSIVE PairEntries(_, _)
PairEntries(ids, pairs) ==
    IF pairs = <<>> THEN <<>>
    ELSE LET i == Head(pairs)[1]
             j == Head(pairs)[2]
             rest == PairEntries(ids, Tail(pairs))
         IN  IF get_interaction(ids[i], ids[j]) = <<>> THEN rest
             ELSE <<PairEntry(ids, i, j)>> \o rest

IsConflict(e) == e.kind = "CONFLICT"
IsCaution(e) == e.kind = "CAUTION"
IsSynergy(e) == e.kind = "SYNERGY"
HasWait(e) == e.wait_minutes > 0

\* check_compatibility(ids): every pair classified and bucketed.
check_compatibility_strict(ids) ==
    LET entries == PairEntries(ids, PairsFrom(1, 2, Len(ids)))
        conflicts == SelectSeq(entries, IsConflict)
    IN  [is_compatible |-> conflicts = <<>> /\ SelectSeq(entries, IsCaution) = <<>>,
         conflicts |-> conflicts,
         cautions |-> SelectSeq(entries, IsCaution),
         synergies |-> SelectSeq(entries, IsSynergy),
         wait_times |-> SelectSeq(entries, HasWait)]
check_compatibility(ids) ==
    LET entries == PairEntries(ids, PairsFrom(1, 2, Len(ids)))
        conflicts == SelectSeq(entries, IsConflict)
    IN  [is_compatible |-> conflicts = <<>>,
         conflicts |-> conflicts,
         cautions |-> SelectSeq(entries, IsCaution),
         synergies |-> SelectSeq(entries, IsSynergy),
         wait_times |-> SelectSeq(entries, HasWait)]

\* The words of a name or alias (str.split).
Words(s) ==
    CASE s = "vitamin c" -> <<"vitamin", "c">>
      [] s = "Vitamin C" -> <<"Vitamin", "C">>
      [] s = "benzoyl peroxide" -> <<"benzoyl", "peroxide">>
      [] s = "Benzoyl Peroxide" -> <<"Benzoyl", "Peroxide">>
      [] s = "hyaluronic acid" -> <<"hyaluronic", "acid">>
      [] s = "Hyaluronic Acid" -> <<"Hyaluronic", "Acid">>
      [] s = "salicylic acid" -> <<"salicylic", "acid">>
      [] s = "Salicylic Acid" -> <<"Salicylic", "Acid">>
      [] s = "ascorbic acid" -> <<"ascorbic", "acid">>
      [] s = "vitamin b3" -> <<"vitamin", "b3">>
      [] OTHER -> <<s>>

\* The catalog ids in the order the catalog holds them.
CatalogOrder ==
    <<"retinol", "vitamin_c", "benzoyl_peroxide", "ceramides", "spf",
      "niacinamide", "hyaluronic_acid", "salicylic_acid">>

\* The words of the display name, lowered, and of the aliases of an id.
NameTokens(id) ==
    Range(Words(Lower(Catalog(id).name)))
      \cup UNION { Range(Words(Catalog(id).aliases[k])) :
                     k \in DOMAIN Catalog(id).aliases }

\* How many of the words are words of the name or an alias of the id.
Overlap(words, id) ==
    LET tokens == NameTokens(id)
    IN  Cardinality({ k \in DOMAIN words : words[k] \in tokens })

\* The ids with their overlap with the words, in the given order.
RECURSIVE Scored(_, _)
Scored(words, ids) ==
    IF ids = <<>> THEN <<>>
    ELSE << [id |-> Head(ids), overlap |-> Overlap(words, Head(ids))] >>
         \o Scored(words, Tail(ids))

\* The scored ids whose overlap is n or less and not zero, the larger
\* overlap first, the given order among equals.
RECURSIVE RankedFrom(_, _)
RankedFrom(scored, n) ==
    IF n < 1 THEN <<>>
    ELSE SelectSeq(scored, LAMBDA s : s.overlap = n)
         \o RankedFrom(scored, n - 1)

\* find_ingredient(text), the text given by its words: the records whose
\* name or aliases share a word with it, best match first.
find_ingredient(words) ==
    LET ranked == RankedFrom(Scored(words, CatalogOrder), Len(words))
    IN  [k \in DOMAIN ranked |-> Catalog(ranked[k].id)]

\* explain_interaction(a, b): a sentence made from the kind of the record.
NoKnownInteraction == "No known interaction between these ingredients."
explain_interaction(id_a, id_b) ==
    LET interaction == get_interaction(id_a, id_b)
    IN  IF interaction = <<>> THEN NoKnownInteraction
        ELSE interaction[1].kind \o ": " \o interaction[1].recommendation

\* get_all_interactions(id): the records that touch the id.
get_all_interactions(id) ==
    LET others == SelectSeq(CatalogOrder,
                            LAMBDA o : get_interaction(id, o) # <<>>)
    IN  [k \in DOMAIN others |-> get_interaction(id, others[k])[1]]

\* get_ingredients_by_concern(concern): the records that address it.
get_ingredients_by_concern(concern) ==
    LET ids == SelectSeq(CatalogOrder,
                         LAMBDA id : concern \in Range(Catalog(id).addresses_concerns))
    IN  [k \in DOMAIN ids |-> Catalog(ids[k])]

----------------------------------------------------------------------------
\* Routine model.

AM == "morning"
PM == "evening"
RoutineTime == {AM, PM}

\* RoutineStep(order, product_name, ingredients, wait_after, notes)
RoutineStep(order, product_name, ingredients, wait_after, notes) ==
    [order |-> order, product_name |-> product_name, ingredients |-> ingredients,
     wait_after |-> wait_after, notes |-> notes]

\* Routine.get_all_ingredients: the steps' ingredient lists, concatenated.
RECURSIVE get_all_ingredients(_)
get_all_ingredients(steps) ==
    IF steps = <<>> THEN <<>>
    ELSE Head(steps).ingredients \o get_all_ingredients(Tail(steps))

----------------------------------------------------------------------------
\* RoutineBuilder: analysis.

\* min() of a non-empty list of numbers.
RECURSIVE MinOf(_)
MinOf(orders) ==
    IF Len(orders) = 1 THEN orders[1]
    ELSE LET m == MinOf(Tail(orders))
         IN  IF Head(orders) <= m THEN Head(orders) ELSE m

\* Variant: an id that does not resolve counts with the default order 5.
RECURSIVE ResolvedOrders_unknown_default(_)
ResolvedOrders_unknown_default(ingredient_ids) ==
    IF ingredient_ids = <<>> THEN <<>>
    ELSE LET ingredient == get_ingredient(Head(ingredient_ids))
             rest == ResolvedOrders_unknown_default(Tail(ingredient_ids))
         IN  IF ingredient # <<>>
             THEN <<ingredient[1].application_order>> \o rest
             ELSE <<5>> \o rest

\* The application_order of every id that resolves, in list order.
RECURSIVE ResolvedOrders(_)
ResolvedOrders(ingredient_ids) ==
    IF ingredient_ids = <<>> THEN <<>>
    ELSE LET ingredient == get_ingredient(Head(ingredient_ids))
             rest == ResolvedOrders(Tail(ingredient_ids))
         IN  IF ingredient # <<>>
             THEN <<ingredient[1].application_order>> \o rest
             ELSE rest

\* Variant: the order of the first resolving ingredient, not the minimum.
get_step_order_first(step) ==
    IF step.ingredients = <<>> THEN 5
    ELSE LET orders == ResolvedOrders(step.ingredients)
         IN  IF orders # <<>> THEN orders[1] ELSE 5

\* _get_step_order(step)
get_step_order(step) ==
    IF step.ingredients = <<>> THEN 5
    ELSE LET orders == ResolvedOrders(step.ingredients)
         IN  IF orders # <<>> THEN MinOf(orders) ELSE 5

\* The message _check_ordering appends for steps i < j (1-based positions).
OrderingIssue(steps, i, j) ==
    "'" \o steps[i].product_name \o "' (step " \o ToString(i)
        \o ") should come after '" \o steps[j].product_name
        \o "' (step " \o ToString(j) \o ")"

RECURSIVE OrderingLoop(_, _)
OrderingLoop(steps, pairs) ==
    IF pairs = <<>> THEN <<>>
    ELSE LET i == Head(pairs)[1]
             j == Head(pairs)[2]
             rest == OrderingLoop(steps, Tail(pairs))
         IN  IF get_step_order(steps[i]) > get_step_order(steps[j])
             THEN <<OrderingIssue(steps, i, j)>> \o rest
             ELSE rest

\* Variant: only neighbouring steps are compared.
check_ordering_adjacent(r) ==
    OrderingLoop(r.steps, [k \in 1..(Len(r.steps) - 1) |-> <<k, k + 1>>])

\* _check_ordering(routine)
check_ordering(r) == OrderingLoop(r.steps, PairsFrom(1, 2, Len(r.steps)))

\* any(get_ingredient(id) and get_ingredient(id).category in categories ...)
HasCategory(ingredient_ids, categories) ==
    \E k \in 1..Len(ingredient_ids) :
        /\ get_ingredient(ingredient_ids[k]) # <<>>
        /\ get_ingredient(ingredient_ids[k])[1].category \in categories

MissingSunscreen == "Sunscreen (SPF) - essential for morning routine"
MissingMoisturizer == "Moisturizer - needed to maintain skin barrier"

\* Variant: sunscreen is asked of evening routines too.
check_missing_essentials_any_time(r, prof) ==
    LET all_ingredients == get_all_ingredients(r.steps)
    IN  (IF ~HasCategory(all_ingredients, {"sunscreen"})
         THEN <<MissingSunscreen>> ELSE <<>>)
        \o (IF ~HasCategory(all_ingredients, {"moisturizer", "ceramide"})
            THEN <<MissingMoisturizer>> ELSE <<>>)

\* Variant: a ceramide does not count as a moisturizer.
check_missing_essentials_no_ceramide(r, prof) ==
    LET all_ingredients == get_all_ingredients(r.steps)
    IN  (IF r.time = AM /\ ~HasCategory(all_ingredients, {"sunscreen"})
         THEN <<MissingSunscreen>> ELSE <<>>)
        \o (IF ~HasCategory(all_ingredients, {"moisturizer"})
            THEN <<MissingMoisturizer>> ELSE <<>>)

\* _check_missing_essentials(routine, profile)
check_missing_essentials(r, prof) ==
    LET all_ingredients == get_all_ingredients(r.steps)
        spf == IF r.time = AM /\ ~HasCategory(all_ingredients, {"sunscreen"})
               THEN <<MissingSunscreen>> ELSE <<>>
        moist == IF ~HasCategory(all_ingredients, {"moisturizer", "ceramide"})
                 THEN <<MissingMoisturizer>> ELSE <<>>
    IN  spf \o moist

WaitSuggestion(wait_pair) ==
    "Wait 20-30 minutes between " \o wait_pair.ingredient_a
        \o " and " \o wait_pair.ingredient_b

\* Variant: the first ingredient is named twice.
RemovalSuggestion_same(conflict) ==
    "Consider removing one of: " \o conflict.ingredient_a \o " or "
        \o conflict.ingredient_a \o ". " \o conflict.recommendation

RemovalSuggestion(conflict) ==
    "Consider removing one of: " \o conflict.ingredient_a \o " or "
        \o conflict.ingredient_b \o ". " \o conflict.recommendation

RetinoidSuggestion == "Consider adding a retinoid for anti-aging (PM routine only)"

RECURSIVE WaitSuggestions(_)
WaitSuggestions(wait_times) ==
    IF wait_times = <<>> THEN <<>>
    ELSE <<WaitSuggestion(Head(wait_times))>> \o WaitSuggestions(Tail(wait_times))

RECURSIVE RemovalSuggestions(_)
RemovalSuggestions(conflicts) ==
    IF conflicts = <<>> THEN <<>>
    ELSE <<RemovalSuggestion(Head(conflicts))>> \o RemovalSuggestions(Tail(conflicts))

\* Variant: the retinoid is suggested for morning routines too.
ProfileSuggestions_any_time(r, prof) ==
    IF /\ prof # <<>>
       /\ "aging" \in prof[1].concerns
       /\ ~HasCategory(get_all_ingredients(r.steps), {"retinoid"})
    THEN <<RetinoidSuggestion>> ELSE <<>>

\* The profile-based part of _generate_suggestions.
ProfileSuggestions(r, prof) ==
    IF prof # <<>> /\ "aging" \in prof[1].concerns
    THEN LET has_retinoid == HasCategory(get_all_ingredients(r.steps), {"retinoid"})
         IN  IF ~has_retinoid /\ r.time = PM THEN <<RetinoidSuggestion>> ELSE <<>>
    ELSE <<>>

\* _generate_suggestions(routine, compatibility, profile)
generate_suggestions(r, compatibility, prof) ==
    WaitSuggestions(compatibility.wait_times)
        \o RemovalSuggestions(compatibility.conflicts)
        \o ProfileSuggestions(r, prof)

\* Variant: a caution invalidates the routine too.
analyze_routine_strict(r, prof) ==
    LET all_ingredients == get_all_ingredients(r.steps)
        compatibility == check_compatibility(all_ingredients)
        ordering_issues == check_ordering(r)
    IN  [is_valid |-> /\ Len(compatibility.conflicts) = 0
                      /\ Len(compatibility.cautions) = 0
                      /\ Len(ordering_issues) = 0,
         conflicts |-> compatibility.conflicts,
         cautions |-> compatibility.cautions,
         synergies |-> compatibility.synergies,
         ordering_issues |-> ordering_issues,
         missing_essentials |-> check_missing_essentials(r, prof),
         suggestions |-> generate_suggestions(r, compatibility, prof)]

\* analyze_routine(routine, profile)
analyze_routine(r, prof) ==
    LET all_ingredients == get_all_ingredients(r.steps)
        compatibility == check_compatibility(all_ingredients)
        ordering_issues == check_ordering(r)
        missing == check_missing_essentials(r, prof)
        suggestions == generate_suggestions(r, compatibility, prof)
    IN  [is_valid |-> Len(compatibility.conflicts) = 0 /\ Len(ordering_issues) = 0,
         conflicts |-> compatibility.conflicts,
         cautions |-> compatibility.cautions,
         synergies |-> compatibility.synergies,
         ordering_issues |-> ordering_issues,
         missing_essentials |-> missing,
         suggestions |-> suggestions]

----------------------------------------------------------------------------
\* RoutineBuilder: construction.

\* Variant: the order of the first resolving ingredient, not the minimum.
get_product_order_first(ingredient_ids) ==
    IF ingredient_ids = <<>> THEN 5
    ELSE LET orders == ResolvedOrders(ingredient_ids)
         IN  IF orders # <<>> THEN orders[1] ELSE 5

\* _get_product_order(ingredient_ids)
get_product_order(ingredient_ids) ==
    IF ingredient_ids = <<>> THEN 5
    ELSE LET orders == ResolvedOrders(ingredient_ids)
         IN  IF orders # <<>> THEN MinOf(orders) ELSE 5

\* sorted(products, key=...): a stable sort, each product placed after the
\* products already placed whose key is not greater.
RECURSIVE InsertSorted(_, _)
InsertSorted(p, placed) ==
    IF placed = <<>> THEN <<p>>
    ELSE IF get_product_order(Head(placed).ingredients)
              <= get_product_order(p.ingredients)
         THEN <<Head(placed)>> \o InsertSorted(p, Tail(placed))
         ELSE <<p>> \o placed

\* Variant: a product equal to one already placed is placed only once.
RECURSIVE sorted_products_unique(_)
sorted_products_unique(prods) ==
    IF prods = <<>> THEN <<>>
    ELSE LET rest == sorted_products_unique(SubSeq(prods, 1, Len(prods) - 1))
         IN  IF prods[Len(prods)] \in Range(rest) THEN rest
             ELSE InsertSorted(prods[Len(prods)], rest)

RECURSIVE sorted_products(_)
sorted_products(prods) ==
    IF prods = <<>> THEN <<>>
    ELSE InsertSorted(prods[Len(prods)],
                      sorted_products(SubSeq(prods, 1, Len(prods) - 1)))

\* Variant: the restrictions are tested against the wrong time of day.
check_time_appropriateness_swapped(ingredient_ids, t) ==
    LET off == { k \in 1..Len(ingredient_ids) :
                   /\ get_ingredient(ingredient_ids[k]) # <<>>
                   /\ get_ingredient(ingredient_ids[k])[1].time_of_day
                        = (IF t = AM THEN "AM_ONLY" ELSE "PM_ONLY") }
        first == CHOOSE k \in off : \A o \in off : k <= o
    IN  IF off = {} THEN <<TRUE, "">>
        ELSE <<FALSE, get_ingredient(ingredient_ids[first])[1].name
                        \o (IF t = AM THEN " should only be used in the morning"
                            ELSE " should only be used at night")>>

\* _check_time_appropriateness(ingredient_ids, time): <<time_ok, time_note>>
RECURSIVE check_time_appropriateness(_, _)
check_time_appropriateness(ingredient_ids, t) ==
    IF ingredient_ids = <<>> THEN <<TRUE, "">>
    ELSE LET ingredient == get_ingredient(Head(ingredient_ids))
         IN  IF ingredient = <<>>
             THEN check_time_appropriateness(Tail(ingredient_ids), t)
             ELSE IF t = AM /\ ingredient[1].time_of_day = "PM_ONLY"
             THEN <<FALSE, ingredient[1].name \o " should only be used at night">>
             ELSE IF t # AM /\ ingredient[1].time_of_day = "AM_ONLY"
             THEN <<FALSE, ingredient[1].name \o " should only be used in the morning">>
             ELSE check_time_appropriateness(Tail(ingredient_ids), t)

\* The inner loop of _calculate_wait_time for one current ingredient.
RECURSIVE WaitInner(_, _, _)
WaitInner(curr_id, next_ingredients, max_wait) ==
    IF next_ingredients = <<>> THEN max_wait
    ELSE LET interaction == get_interaction(curr_id, Head(next_ingredients))
             m == IF interaction # <<>> /\ interaction[1].wait_minutes # 0
                  THEN IF interaction[1].wait_minutes > max_wait
                       THEN interaction[1].wait_minutes ELSE max_wait
                  ELSE max_wait
         IN  WaitInner(curr_id, Tail(next_ingredients), m)

RECURSIVE WaitOuter(_, _, _)
WaitOuter(current_ingredients, next_ingredients, max_wait) ==
    IF current_ingredients = <<>> THEN max_wait
    ELSE WaitOuter(Tail(current_ingredients), next_ingredients,
                   WaitInner(Head(current_ingredients), next_ingredients, max_wait))

\* Variant: each positive wait overwrites max_wait, so the last one found wins.
calculate_wait_time_last(current_ingredients, next_ingredients) ==
    LET wait(q) == get_interaction(current_ingredients[q[1]],
                                   next_ingredients[q[2]])[1].wait_minutes
        pos == { q \in (1..Len(current_ingredients)) \X (1..Len(next_ingredients)) :
                   /\ get_interaction(current_ingredients[q[1]],
                                      next_ingredients[q[2]]) # <<>>
                   /\ wait(q) # 0 }
        last == CHOOSE q \in pos :
                    \A o \in pos : o[1] < q[1] \/ (o[1] = q[1] /\ o[2] <= q[2])
    IN  IF pos = {} THEN 0 ELSE wait(last)

\* _calculate_wait_time(current_ingredients, next_ingredients)
calculate_wait_time(current_ingredients, next_ingredients) ==
    WaitOuter(current_ingredients, next_ingredients, 0)

\* The step build_routine makes of sorted product i.
BuildStep(sorted, i, t) ==
    LET product == sorted[i]
        appropriate == check_time_appropriateness(product.ingredients, t)
        wait_time == calculate_wait_time(
                         product.ingredients,
                         IF i + 1 <= Len(sorted) THEN sorted[i + 1].ingredients
                         ELSE <<>>)
    IN  RoutineStep(i, product.name, product.ingredients, wait_time,
                    IF ~appropriate[1] THEN appropriate[2] ELSE "")

\* The steps build_routine appends for the sorted products i, i + 1, ...
RECURSIVE BuildSteps(_, _, _)
BuildSteps(sorted, i, t) ==
    IF i > Len(sorted) THEN <<>>
    ELSE <<BuildStep(sorted, i, t)>> \o BuildSteps(sorted, i + 1, t)

\* The routine build_routine returns.
BuildRoutine(prods, t) ==
    [time |-> t, steps |-> BuildSteps(sorted_products(prods), 1, t)]

\* The products as steps, in the order given: RoutineStep(i, name, ingredients).
RECURSIVE StepsAsGiven(_, _)
StepsAsGiven(prods, i) ==
    IF i > Len(prods) THEN <<>>
    ELSE <<RoutineStep(i, prods[i].name, prods[i].ingredients, 0, "")>>
           \o StepsAsGiven(prods, i + 1)

\* Variant: the analysis is made of the products in the order given, before the sort.
build_routine_presort(prods, t, prof) ==
    <<BuildRoutine(prods, t),
      analyze_routine([time |-> t, steps |-> StepsAsGiven(prods, 1)], prof)>>

\* build_routine(products, time, profile): <<routine, analysis>>
build_routine(prods, t, prof) ==
    LET r == BuildRoutine(prods, t)
    IN  <<r, analyze_routine(r, prof)>>

----------------------------------------------------------------------------
\* RoutineBuilder: suggest_routine.

\* items joined by sep, as str.join does.
RECURSIVE Join(_, _)
Join(items, sep) ==
    IF items = <<>> THEN ""
    ELSE IF Len(items) = 1 THEN items[1]
    ELSE items[1] \o sep \o Join(Tail(items), sep)

\* xs[:n]
FirstN(xs, n) == IF Len(xs) <= n THEN xs ELSE SubSeq(xs, 1, n)

\* The ingredient records of a list of catalog ids.
RECURSIVE Ingredients(_)
Ingredients(ids) ==
    IF ids = <<>> THEN <<>>
    ELSE <<Catalog(Head(ids))>> \o Ingredients(Tail(ids))

TreatmentLimit == 5

CleanserStep ==
    [step |-> "Cleanser", why |-> "Removes dirt, oil, and products",
     ingredients |-> <<"cleanser">>, priority |-> "essential"]

MoisturizerStep ==
    [step |-> "Moisturizer", why |-> "Maintains skin barrier and hydration",
     ingredients |-> <<"ceramides", "hyaluronic_acid">>,
     priority |-> "essential"]

SunscreenStep ==
    [step |-> "Sunscreen (SPF 30+)",
     why |-> "Protects from UV damage - the #1 anti-aging step",
     ingredients |-> <<"spf">>, priority |-> "essential"]

\* The filter by time of day.
TimeAppropriate_any(ing, t) == TRUE
TimeAppropriate(ing, t) ==
    \/ t = AM /\ ing.time_of_day # "PM_ONLY"
    \/ t = PM /\ ing.time_of_day # "AM_ONLY"

time_appropriate(recs, t) ==
    SelectSeq(recs, LAMBDA ing : TimeAppropriate(ing, t))

\* The suggestion appended for one ingredient.
TreatmentStep(ingredient, prof) ==
    LET concerns_addressed ==
            SelectSeq(ingredient.addresses_concerns,
                      LAMBDA c : c \in prof.concerns)
    IN  [step |-> "Treatment: " \o ingredient.name,
         why |-> "Addresses: " \o Join(concerns_addressed, ", "),
         ingredients |-> <<ingredient.id>>,
         priority |-> "recommended"]

\* The loop over time_appropriate[:5], added_categories being the
\* categories used so far.
RECURSIVE Treatments(_, _, _)
Treatments(ings, added_categories, prof) ==
    IF ings = <<>> THEN <<>>
    ELSE LET ingredient == Head(ings)
         IN  IF ingredient.category \in added_categories
             THEN Treatments(Tail(ings), added_categories, prof)
             ELSE <<TreatmentStep(ingredient, prof)>>
                  \o Treatments(Tail(ings),
                                added_categories \cup {ingredient.category},
                                prof)

\* suggest_routine(profile, time, budget), recs being what
\* get_recommended_ingredients(profile) returned.
suggest_routine_limit_after_skip(recs, prof, t, budget) ==
    <<CleanserStep>>
    \o FirstN(Treatments(time_appropriate(recs, t), {}, prof), TreatmentLimit)
    \o <<MoisturizerStep>>
    \o (IF t = AM THEN <<SunscreenStep>> ELSE <<>>)
suggest_routine_spf_always(recs, prof, t, budget) ==
    <<CleanserStep>>
    \o Treatments(FirstN(time_appropriate(recs, t), TreatmentLimit), {}, prof)
    \o <<MoisturizerStep>>
    \o <<SunscreenStep>>
suggest_routine(recs, prof, t, budget) ==
    <<CleanserStep>>
    \o Treatments(FirstN(time_appropriate(recs, t), TreatmentLimit), {}, prof)
    \o <<MoisturizerStep>>
    \o (IF t = AM THEN <<SunscreenStep>> ELSE <<>>)

----------------------------------------------------------------------------
\* RoutineAnalyzer.

\* The entry of identified_ingredients for a catalog record.
FoundEntry(ingredient) ==
    [name |-> ingredient.name, id |-> ingredient.id,
     category |-> ingredient.category,
     concerns_addressed |-> ingredient.addresses_concerns,
     caution_for |-> ingredient.caution_skin_types]

\* found: the entries of the names that resolve, in the order of the names.
RECURSIVE Found(_)
Found(ingredient_names) ==
    IF ingredient_names = <<>> THEN <<>>
    ELSE LET ingredient == get_ingredient(Head(ingredient_names))
         IN  IF ingredient # <<>>
             THEN <<FoundEntry(ingredient[1])>> \o Found(Tail(ingredient_names))
             ELSE Found(Tail(ingredient_names))

\* not_found: the names that do not resolve, in the order of the names.
RECURSIVE NotFound(_)
NotFound(ingredient_names) ==
    IF ingredient_names = <<>> THEN <<>>
    ELSE IF get_ingredient(Head(ingredient_names)) # <<>>
         THEN NotFound(Tail(ingredient_names))
         ELSE <<Head(ingredient_names)>> \o NotFound(Tail(ingredient_names))

\* [f["id"] for f in found]
RECURSIVE FoundIds(_)
FoundIds(found) ==
    IF found = <<>> THEN <<>>
    ELSE <<Head(found).id>> \o FoundIds(Tail(found))

\* [f["name"] for f in found]
RECURSIVE FoundNames(_)
FoundNames(found) ==
    IF found = <<>> THEN <<>>
    ELSE <<Head(found).name>> \o FoundNames(Tail(found))

\* The concerns of the catalog, in the order sorted() gives them.
SortedConcerns == <<"acne", "aging", "dryness">>

\* _generate_summary(found, compatibility); the pictograph that opens each
\* line is left out.
generate_summary(found, compatibility) ==
    LET concerns == UNION { Range(found[i].concerns_addressed) : i \in DOMAIN found }
        lines ==
            (IF compatibility.conflicts # <<>>
             THEN <<"Found " \o ToString(Len(compatibility.conflicts))
                     \o " ingredient conflict(s)">>
             ELSE <<>>)
            \o (IF compatibility.synergies # <<>>
                THEN <<"Found " \o ToString(Len(compatibility.synergies))
                        \o " beneficial combination(s)">>
                ELSE <<>>)
            \o (IF concerns # {}
                THEN <<"This addresses: "
                        \o Join(SelectSeq(SortedConcerns,
                                          LAMBDA c : c \in concerns), ", ")>>
                ELSE <<>>)
    IN  IF lines # <<>> THEN Join(lines, "\n")
        ELSE "No notable interactions found."

\* analyze_ingredient_list(ingredient_names)
analyze_ingredient_list_names(ingredient_names) ==
    LET found == Found(ingredient_names)
        compatibility == check_compatibility(FoundNames(found))
    IN  [identified_ingredients |-> found,
         unrecognized |-> NotFound(ingredient_names),
         compatibility |-> compatibility,
         summary |-> generate_summary(found, compatibility)]
analyze_ingredient_list(ingredient_names) ==
    LET found == Found(ingredient_names)
        found_ids == FoundIds(found)
        compatibility == check_compatibility(found_ids)
    IN  [identified_ingredients |-> found,
         unrecognized |-> NotFound(ingredient_names),
         compatibility |-> compatibility,
         summary |-> generate_summary(found, compatibility)]

DoNotCombine ==
    "These products should NOT be used together in the same routine."
UseWithCaution ==
    "These can be used together with caution. Consider using on alternate days if irritation occurs."
GreatCombination ==
    "Great combination! These products complement each other well."
NoKnownInteractions ==
    "No known interactions. Should be safe to use together."

\* _generate_combination_advice(compatibility)
generate_combination_advice_caution_first(compatibility) ==
    IF compatibility.cautions # <<>> THEN UseWithCaution
    ELSE IF compatibility.conflicts # <<>> THEN DoNotCombine
    ELSE IF compatibility.synergies # <<>> THEN GreatCombination
    ELSE NoKnownInteractions
generate_combination_advice(compatibility) ==
    IF compatibility.conflicts # <<>> THEN DoNotCombine
    ELSE IF compatibility.cautions # <<>> THEN UseWithCaution
    ELSE IF compatibility.synergies # <<>> THEN GreatCombination
    ELSE NoKnownInteractions

\* compare_products(product_a, product_b)
compare_products(product_a, product_b) ==
    LET all_ingredients == product_a \o product_b
        compatibility == check_compatibility(all_ingredients)
    IN  [can_use_together |-> compatibility.is_compatible,
         conflicts |-> compatibility.conflicts,
         cautions |-> compatibility.cautions,
         synergies |-> compatibility.synergies,
         recommendation |-> generate_combination_advice(compatibility)]

----------------------------------------------------------------------------
\* SkincareAdvisor: the question and its classification.
\* A question is a list of words, joined by single blanks, and a closing
\* mark ("" or "?") that sticks to the last word.

\* question.lower().strip()
RECURSIVE LowerWords(_)
LowerWords(words) ==
    IF words = <<>> THEN <<>>
    ELSE <<Lower(Head(words))>> \o LowerWords(Tail(words))

lower_question(q) == [q EXCEPT !.words = LowerWords(@)]

\* The patterns, word by word; "(.+)" is a group of one word or more,
\* ".*" any words or none ("recommend.* for").
compatibility_patterns ==
    << <<"can", "i", "use", "(.+)", "with", "(.+)">>,
       <<"can", "i", "mix", "(.+)", "and", "(.+)">>,
       <<"is", "(.+)", "compatible", "with", "(.+)">>,
       <<"(.+)", "and", "(.+)", "together">>,
       <<"combine", "(.+)", "and", "(.+)">>,
       <<"layer", "(.+)", "with", "(.+)">> >>

ingredient_patterns ==
    << <<"what", "is", "(.+)">>,
       <<"tell", "me", "about", "(.+)">>,
       <<"how", "does", "(.+)", "work">>,
       <<"benefits", "of", "(.+)">>,
       <<"what", "does", "(.+)", "do">> >>

concern_patterns ==
    << <<"what", "should", "i", "use", "for", "(.+)">>,
       <<"help", "with", "(.+)">>,
       <<"how", "to", "treat", "(.+)">>,
       <<"best", "for", "(.+)">>,
       <<"recommend", ".*", "for", "(.+)">> >>

order_patterns ==
    << <<"what", "order">>,
       <<"how", "to", "layer">>,
       <<"which", "first">>,
       <<"sequence">>,
       <<"routine", "order">> >>

\* The text of words i..e of the question; the mark belongs to the last word.
GroupText(q, i, e) ==
    [words |-> SubSeq(q.words, i, e),
     mark |-> IF e = Len(q.words) THEN q.mark ELSE ""]

\* The pattern matched against the question from word i on: nothing when it
\* does not match, else the list of its groups, in a list of one.  A group
\* takes as many words as the rest of the pattern allows.
RECURSIVE MatchAt(_, _, _)
RECURSIVE MatchGreedy(_, _, _, _, _)
MatchAt(pattern, q, i) ==
    IF pattern = <<>> THEN << <<>> >>
    ELSE IF Head(pattern) = "(.+)"
         THEN MatchGreedy(pattern, q, i, Len(q.words), 1)
    ELSE IF Head(pattern) = ".*"
         THEN MatchGreedy(pattern, q, i, Len(q.words), 0)
    ELSE IF i <= Len(q.words) /\ q.words[i] = Head(pattern)
         THEN MatchAt(Tail(pattern), q, i + 1)
    ELSE <<>>

\* The head of the pattern taking words i..e, or fewer, but at least least.
MatchGreedy(pattern, q, i, e, least) ==
    IF e < i + least - 1 THEN <<>>
    ELSE LET rest == MatchAt(Tail(pattern), q, e + 1)
         IN  IF rest = <<>> THEN MatchGreedy(pattern, q, i, e - 1, least)
             ELSE IF Head(pattern) = "(.+)"
                  THEN << <<GroupText(q, i, e)>> \o rest[1] >>
             ELSE rest

\* re.search(pattern, question): the match that starts first.
RECURSIVE SearchFrom(_, _, _)
SearchFrom(pattern, q, start) ==
    IF start > Len(q.words) THEN <<>>
    ELSE LET m == MatchAt(pattern, q, start)
         IN  IF m # <<>> THEN m ELSE SearchFrom(pattern, q, start + 1)

\* The words a pattern spells out; a question without one of them has no
\* match of the pattern.
Literals(pattern) == Range(pattern) \ {"(.+)", ".*"}

re_search(pattern, q) ==
    IF Literals(pattern) \subseteq Range(q.words)
    THEN SearchFrom(pattern, q, 1)
    ELSE <<>>

\* The match of the first pattern of the list that matches.
RECURSIVE FirstMatch(_, _)
FirstMatch(patterns, q) ==
    IF patterns = <<>> THEN <<>>
    ELSE LET m == re_search(Head(patterns), q)
         IN  IF m # <<>> THEN m ELSE FirstMatch(Tail(patterns), q)

COMPATIBILITY == "compatibility"
INGREDIENT_INFO == "ingredient_info"
ROUTINE_HELP == "routine_help"
CONCERN_ADVICE == "concern_advice"
GENERAL == "general"

\* _classify_query(question): the type and the extracted terms.
classify_query_ingredient_first(q) ==
    LET compatibility == FirstMatch(compatibility_patterns, q)
        ingredient == FirstMatch(ingredient_patterns, q)
        concern == FirstMatch(concern_patterns, q)
        order == FirstMatch(order_patterns, q)
    IN  IF ingredient # <<>> THEN <<INGREDIENT_INFO, ingredient[1]>>
        ELSE IF compatibility # <<>> THEN <<COMPATIBILITY, compatibility[1]>>
        ELSE IF concern # <<>> THEN <<CONCERN_ADVICE, concern[1]>>
        ELSE IF order # <<>> THEN <<ROUTINE_HELP, <<>>>>
        ELSE <<GENERAL, <<>>>>
classify_query(q) ==
    LET compatibility == FirstMatch(compatibility_patterns, q)
        ingredient == FirstMatch(ingredient_patterns, q)
        concern == FirstMatch(concern_patterns, q)
        order == FirstMatch(order_patterns, q)
    IN  IF compatibility # <<>> THEN <<COMPATIBILITY, compatibility[1]>>
        ELSE IF ingredient # <<>> THEN <<INGREDIENT_INFO, ingredient[1]>>
        ELSE IF concern # <<>> THEN <<CONCERN_ADVICE, concern[1]>>
        ELSE IF order # <<>> THEN <<ROUTINE_HELP, <<>>>>
        ELSE <<GENERAL, <<>>>>

----------------------------------------------------------------------------
\* SkincareAdvisor: the handlers.  A handler returns its QueryResult and
\* the calls it made, in order; confidence is in hundredths.

\* A value computed once and then used under a name (a local variable).
With(value, Body(_)) == Body(value)

QueryResult(query_type, answer, confidence, sources, follow_up_questions) ==
    [query_type |-> query_type, answer |-> answer, confidence |-> confidence,
     sources |-> sources, follow_up_questions |-> follow_up_questions]

\* A call of fn, made by the function by, with the argument arg.
Call(fn, by, arg) == [fn |-> fn, by |-> by, arg |-> arg]

\* text.strip().rstrip(chars) on an extracted term.
rstrip(term, chars) ==
    [term EXCEPT !.mark = IF @ \in chars THEN "" ELSE @]

\* The term as a string.
Text(term) == Join(term.words, " ") \o term.mark

\* The words of one list are, side by side and lowered, words of the other
\* (needle.lower() in text.lower()).
Contains(words, needle) ==
    \E i \in 0..(Len(words) - Len(needle)) :
        \A k \in DOMAIN needle : Lower(words[i + k]) = Lower(needle[k])

\* get_ingredient(name), and find_ingredient(name)[0] when that is nothing.
Resolve(name) ==
    LET exact == get_ingredient(Text(name))
        matches == find_ingredient(name.words)
    IN  IF exact # <<>> THEN exact
        ELSE IF Len(matches) > 0 THEN <<matches[1]>>
        ELSE <<>>

\* The calls of Resolve, after get_ingredient.
FuzzyCalls(by, name) ==
    IF get_ingredient(Text(name)) = <<>>
    THEN <<Call("find_ingredient", by, Text(name))>>
    ELSE <<>>

\* missing = ing_a_name if not ing_a else ing_b_name
Missing_second(ing_a, ing_a_name, ing_b_name) == Text(ing_b_name)
Missing(ing_a, ing_a_name, ing_b_name) ==
    IF ing_a = <<>> THEN Text(ing_a_name) ELSE Text(ing_b_name)

\* _handle_compatibility(extracted, original_question)
handle_compatibility(extracted, original_question) ==
    IF Len(extracted) < 2
    THEN [result |-> QueryResult(COMPATIBILITY,
            "I need two ingredients to check compatibility. Try asking 'Can I use retinol with vitamin C?'",
            50, <<>>, <<"Can I use retinol with niacinamide?">>),
          calls |-> <<>>]
    ELSE With(rstrip(extracted[1], {"?", ".", ",", "!"}), LAMBDA ing_a_name :
         With(rstrip(extracted[2], {"?", ".", ",", "!"}), LAMBDA ing_b_name :
         With(Resolve(ing_a_name), LAMBDA ing_a :
         With(Resolve(ing_b_name), LAMBDA ing_b :
         With(<<Call("get_ingredient", "_handle_compatibility", Text(ing_a_name)),
                Call("get_ingredient", "_handle_compatibility", Text(ing_b_name))>>
              \o FuzzyCalls("_handle_compatibility", ing_a_name)
              \o FuzzyCalls("_handle_compatibility", ing_b_name), LAMBDA lookups :
           IF ing_a = <<>> \/ ing_b = <<>>
           THEN With(Missing(ing_a, ing_a_name, ing_b_name), LAMBDA missing :
                  [result |-> QueryResult(COMPATIBILITY,
                      "I don't have information about '" \o missing
                        \o "' in my database. Could you check the spelling or try another name?",
                      30, <<>>, <<"What is " \o missing \o "?">>),
                   calls |-> lookups])
           ELSE With(explain_interaction(ing_a[1].id, ing_b[1].id), LAMBDA explanation :
                With(check_compatibility(<<ing_a[1].id, ing_b[1].id>>), LAMBDA compatibility :
                With(<<explanation>>
                     \o (IF compatibility.synergies # <<>>
                         THEN <<"\n\nThese ingredients actually work well together!">>
                         ELSE <<>>), LAMBDA answer_parts :
                With((IF compatibility.conflicts # <<>> \/ compatibility.cautions # <<>>
                      THEN <<"What can I use instead of " \o ing_a[1].name \o "?">>
                      ELSE <<>>)
                     \o <<"What order should I apply " \o ing_a[1].name
                           \o " and " \o ing_b[1].name \o "?">>, LAMBDA follow_ups :
                  [result |-> QueryResult(COMPATIBILITY,
                      Join(answer_parts, "\n"), 90,
                      <<"Ingredient: " \o ing_a[1].name,
                        "Ingredient: " \o ing_b[1].name>>,
                      follow_ups),
                   calls |-> lookups
                      \o <<Call("explain_interaction", "_handle_compatibility", <<ing_a[1].id, ing_b[1].id>>),
                           Call("check_compatibility", "_handle_compatibility", <<ing_a[1].id, ing_b[1].id>>)>>]))))
         )))))

\* The follow-up questions about the first two interactions of an
\* ingredient whose other side is in the catalog.
RECURSIVE InteractionFollowUps(_, _)
InteractionFollowUps(ingredient, interactions) ==
    IF interactions = <<>> THEN <<>>
    ELSE LET interaction == Head(interactions)
             other == IF interaction.ingredient_a = ingredient.id
                      THEN interaction.ingredient_b
                      ELSE interaction.ingredient_a
             other_ing == get_ingredient(other)
         IN  (IF other_ing # <<>>
              THEN <<"Can I use " \o ingredient.name \o " with "
                      \o other_ing[1].name \o "?">>
              ELSE <<>>)
             \o InteractionFollowUps(ingredient, Tail(interactions))

\* _handle_ingredient_info(extracted, original_question); of the answer,
\* the heading is kept and the lines that render the catalog's texts are
\* left out.
handle_ingredient_info(extracted, original_question) ==
    IF extracted = <<>>
    THEN [result |-> QueryResult(INGREDIENT_INFO,
            "What ingredient would you like to know about?",
            50, <<>>, <<"What is retinol?", "Tell me about niacinamide">>),
          calls |-> <<>>]
    ELSE With(rstrip(extracted[1], {"?"}), LAMBDA ing_name :
         With(Resolve(ing_name), LAMBDA ingredient :
         With(<<Call("get_ingredient", "_handle_ingredient_info", Text(ing_name))>>
              \o FuzzyCalls("_handle_ingredient_info", ing_name), LAMBDA lookups :
           IF ingredient = <<>>
           THEN [result |-> QueryResult(INGREDIENT_INFO,
                    "I don't have detailed information about '" \o Text(ing_name)
                      \o "'. It might be a less common ingredient or known by another name.",
                    30, <<>>, <<"What ingredients help with acne?">>),
                 calls |-> lookups]
           ELSE With(get_all_interactions(ingredient[1].id), LAMBDA interactions :
                With(<<"Can I use " \o ingredient[1].name \o " with retinol?">>
                     \o InteractionFollowUps(ingredient[1],
                           FirstN([k \in 1..Len(interactions) |-> interactions[k]], 2)),
                     LAMBDA follow_ups :
                  [result |-> QueryResult(INGREDIENT_INFO,
                      "## " \o ingredient[1].name, 95,
                      <<"Ingredient database: " \o ingredient[1].name>>,
                      FirstN(follow_ups, 3)),
                   calls |-> lookups
                      \o <<Call("get_all_interactions", "_handle_ingredient_info", ingredient[1].id)>>]))
         )))

\* concern_mapping, in the order of the dictionary.
concern_mapping ==
    << <<"acne", "acne">>, <<"pimples", "acne">>, <<"breakouts", "acne">>,
       <<"aging", "aging">>, <<"anti-aging", "aging">>, <<"wrinkles", "aging">>,
       <<"fine lines", "aging">>,
       <<"dark spots", "hyperpigmentation">>,
       <<"hyperpigmentation", "hyperpigmentation">>,
       <<"pigmentation", "hyperpigmentation">>,
       <<"uneven skin tone", "hyperpigmentation">>,
       <<"dry skin", "dryness">>, <<"dryness", "dryness">>,
       <<"dehydration", "dryness">>,
       <<"oily skin", "oiliness">>, <<"oiliness", "oiliness">>,
       <<"shine", "oiliness">>,
       <<"sensitivity", "sensitivity">>, <<"sensitive skin", "sensitivity">>,
       <<"redness", "redness">>,
       <<"dull skin", "dullness">>, <<"dullness", "dullness">>,
       <<"texture", "texture">>, <<"rough skin", "texture">>,
       <<"pores", "pores">>, <<"large pores", "pores">> >>

\* The words of a term of the mapping.
TermWords(term) ==
    CASE term = "fine lines" -> <<"fine", "lines">>
      [] term = "dark spots" -> <<"dark", "spots">>
      [] term = "uneven skin tone" -> <<"uneven", "skin", "tone">>
      [] term = "dry skin" -> <<"dry", "skin">>
      [] term = "oily skin" -> <<"oily", "skin">>
      [] term = "sensitive skin" -> <<"sensitive", "skin">>
      [] term = "dull skin" -> <<"dull", "skin">>
      [] term = "rough skin" -> <<"rough", "skin">>
      [] term = "large pores" -> <<"large", "pores">>
      [] OTHER -> <<term>>

\* The concern of the first term of the mapping found in the text, if any.
RECURSIVE MappedConcern(_, _)
MappedConcern(mapping, concern_text) ==
    IF mapping = <<>> THEN <<>>
    ELSE IF Contains(concern_text.words, TermWords(Head(mapping)[1]))
         THEN <<Head(mapping)[2]>>
         ELSE MappedConcern(Tail(mapping), concern_text)

\* The lines of the answer for the top ingredients, the descriptions and
\* tips left out.
RECURSIVE IngredientLines(_)
IngredientLines(ingredients) ==
    IF ingredients = <<>> THEN <<>>
    ELSE <<"**" \o Head(ingredients).name \o "**", "">>
         \o IngredientLines(Tail(ingredients))

\* _handle_concern_advice(extracted, profile, original_question)
handle_concern_advice(extracted, prof, original_question) ==
    IF extracted = <<>>
    THEN [result |-> QueryResult(CONCERN_ADVICE,
            "What skin concern would you like help with?", 50, <<>>,
            <<"What should I use for acne?", "Help with anti-aging",
              "Best for hyperpigmentation">>),
          calls |-> <<>>]
    ELSE LET concern_text == rstrip(extracted[1], {"?"})
             concern == MappedConcern(concern_mapping, concern_text)
         IN  IF concern = <<>>
             THEN [result |-> QueryResult(CONCERN_ADVICE,
                      "I'm not sure what '" \o Text(concern_text)
                        \o "' refers to. Try asking about specific concerns like acne, aging, dark spots, dryness, or oiliness.",
                      40, <<>>,
                      <<"What should I use for acne?", "Best ingredients for aging?">>),
                   calls |-> <<>>]
             ELSE LET found == get_ingredients_by_concern(concern[1])
                      ingredients == [k \in 1..Len(found) |-> found[k]]
                      called == <<Call("get_ingredients_by_concern", "_handle_concern_advice", concern[1])>>
                  IN  IF ingredients = <<>>
                      THEN [result |-> QueryResult(CONCERN_ADVICE,
                               "I don't have specific recommendations for "
                                 \o concern[1] \o " yet.",
                               30, <<>>, <<>>),
                            calls |-> called]
                      ELSE LET lines ==
                                   <<"## Recommended ingredients for "
                                      \o concern[1] \o ":\n">>
                                   \o IngredientLines(FirstN(ingredients, 5))
                                   \o (IF prof # <<>>
                                          /\ prof[1].skin_type \in {"sensitive", "dry"}
                                       THEN <<"\nSince you have " \o prof[1].skin_type
                                               \o " skin, start with gentler options and patch test first.">>
                                       ELSE <<>>)
                               follow_ups ==
                                   (IF Len(ingredients) > 1
                                    THEN <<"Can I use " \o ingredients[1].name
                                            \o " with " \o ingredients[2].name \o "?">>
                                    ELSE <<>>)
                                   \o <<"What is " \o ingredients[1].name \o "?",
                                        "Build me a routine">>
                           IN  [result |-> QueryResult(CONCERN_ADVICE,
                                   Join(lines, "\n"), 85,
                                   <<"Concern: " \o concern[1]>>, follow_ups),
                                calls |-> called]

\* _handle_routine_help(extracted, profile, original_question); of the
\* answer, a fixed text, the heading is kept.
handle_routine_help(extracted, prof, original_question) ==
    [result |-> QueryResult(ROUTINE_HELP,
        "## Standard Skincare Routine Order\n", 95,
        <<"General skincare guidelines">>,
        <<"Can I use vitamin C and niacinamide together?",
          "What order for retinol and hyaluronic acid?",
          "What should I use for my skin concerns?">>),
     calls |-> <<>>]

\* The ingredient is mentioned in the question: its name or one of its
\* aliases is part of it.
Mentioned(id, q) ==
    \/ Contains(q.words, Words(Catalog(id).name))
    \/ \E k \in DOMAIN Catalog(id).aliases :
          Contains(q.words, Words(Catalog(id).aliases[k]))

\* An extracted term made of a display name.
NameTerm(name) == [words |-> Words(name), mark |-> ""]

\* _handle_general(question, profile); of the answer, a fixed text, the
\* first sentence is kept.
handle_general(q, prof) ==
    With(SelectSeq(CatalogOrder, LAMBDA id : Mentioned(id, q)), LAMBDA found_ingredients :
      IF Len(found_ingredients) = 1
      THEN With(<<NameTerm(Catalog(found_ingredients[1]).name)>>, LAMBDA extracted :
           With(handle_ingredient_info(extracted, q), LAMBDA h :
             [result |-> h.result,
              calls |-> <<Call("_handle_ingredient_info", "_handle_general", extracted)>>
                        \o h.calls]))
      ELSE IF Len(found_ingredients) >= 2
      THEN With(<<NameTerm(Catalog(found_ingredients[1]).name),
                  NameTerm(Catalog(found_ingredients[2]).name)>>, LAMBDA extracted :
           With(handle_compatibility(extracted, q), LAMBDA h :
             [result |-> h.result,
              calls |-> <<Call("_handle_compatibility", "_handle_general", extracted)>>
                        \o h.calls]))
      ELSE [result |-> QueryResult(GENERAL,
               "I'm not sure I understood that question.", 30, <<>>,
               <<"Can I use vitamin C with niacinamide?",
                 "What should I use for aging?",
                 "What order should I apply my products?">>),
            calls |-> <<>>])

\* A handler ask has called, and what it returned.
Handled(handler, h) == [handler |-> handler, result |-> h.result, calls |-> h.calls]

\* ask(question, profile): the type the classification returned, the
\* result, and the calls made, those of the handler included.
ask(q, prof) ==
    With(lower_question(q), LAMBDA question_lower :
    With(classify_query(question_lower), LAMBDA classified :
    With(IF classified[1] = COMPATIBILITY
         THEN Handled("_handle_compatibility",
                      handle_compatibility(classified[2], q))
         ELSE IF classified[1] = INGREDIENT_INFO
         THEN Handled("_handle_ingredient_info",
                      handle_ingredient_info(classified[2], q))
         ELSE IF classified[1] = CONCERN_ADVICE
         THEN Handled("_handle_concern_advice",
                      handle_concern_advice(classified[2], prof, q))
         ELSE IF classified[1] = ROUTINE_HELP
         THEN Handled("_handle_routine_help",
                      handle_routine_help(classified[2], prof, q))
         ELSE Handled("_handle_general", handle_general(q, prof)),
         LAMBDA handled :
      [classified |-> classified[1],
       result |-> handled.result,
       calls |-> <<Call("_classify_query", "ask", Text(question_lower)),
                   Call(handled.handler, "ask", classified[2])>>
                 \o handled.calls])))

----------------------------------------------------------------------------
\* The callers' inputs and the operations applied to them.

ProductName(i) == "P" \o ToString(i)

NoProfile == <<>>
Profiles ==
    { NoProfile,
      <<[skin_type |-> "normal", concerns |-> {"aging"}]>>,
      <<[skin_type |-> "normal", concerns |-> {"acne"}]>> }

\* The profiles suggest_routine is asked about.
SuggestProfiles ==
    { <<[skin_type |-> "normal", concerns |-> {"aging"}]>>,
      <<[skin_type |-> "normal", concerns |-> {"acne"}]>>,
      <<[skin_type |-> "normal", concerns |-> {"aging", "acne"}]>> }

Budgets == {"minimal", "moderate", "comprehensive"}

\* The number of the profile's concerns that a catalog ingredient addresses.
Matched(id, prof) ==
    Cardinality({ i \in DOMAIN Catalog(id).addresses_concerns :
                    Catalog(id).addresses_concerns[i] \in prof.concerns })

\* What get_recommended_ingredients(prof) can return: ingredients that
\* address a concern of the profile, none twice, most matched concerns first.
IsRecommendation(ids, prof) ==
    /\ \A i \in DOMAIN ids : Matched(ids[i], prof) >= 1
    /\ \A i, j \in DOMAIN ids : i < j => Matched(ids[i], prof) >= Matched(ids[j], prof)

\* Ids for the lists that mix known and unknown ids.
MixedIds == {"retinol", "vitamin_c", "ceramides", "spf", "mystery"}

\* The ids of the product lists that hold a product more than once.
CopyIds == {"retinol", "benzoyl_peroxide", "ceramides", "mystery"}

\* The names the callers of the analyzer pass: ids, and a display name.
Names == Ids \cup {"Vitamin C"}

\* The phrases the questions are made of.
Phrases ==
    { <<"how", "to", "layer">>, <<"with">>, <<"what", "is">>, <<"best", "for">>,
      <<"retinol">>, <<"ceramides">>, <<"mystery">>, <<"acne">> }

\* The word with its first letter as a capital.
Capitalized(s) ==
    CASE s = "how" -> "How"
      [] s = "with" -> "With"
      [] s = "what" -> "What"
      [] s = "best" -> "Best"
      [] s = "retinol" -> "Retinol"
      [] s = "ceramides" -> "Ceramides"
      [] s = "mystery" -> "Mystery"
      [] s = "acne" -> "Acne"
      [] OTHER -> s

\* The ways ask is called: the question written with or without a capital
\* and with or without the mark, and with or without a profile.
DryProfile == <<[skin_type |-> "dry", concerns |-> {"acne"}]>>
AskStyles ==
    { [capital |-> FALSE, mark |-> "", profile |-> NoProfile],
      [capital |-> TRUE, mark |-> "?", profile |-> NoProfile],
      [capital |-> FALSE, mark |-> "?", profile |-> DryProfile],
      [capital |-> TRUE, mark |-> "", profile |-> DryProfile] }

NoRoutine == [time |-> AM, steps |-> <<>>]
NoAnalysis == <<>>
NoQuestion == [words |-> <<>>, mark |-> ""]

Init ==
    /\ products = <<>>
    /\ time = AM
    /\ profile = NoProfile
    /\ pc = "input"
    /\ routine = NoRoutine
    /\ analysis = NoAnalysis
    /\ reanalysis = NoAnalysis
    /\ recommended = <<>>
    /\ suggested = <<>>
    /\ report = <<>>
    /\ question = NoQuestion
    /\ phrases = 0
    /\ reply = <<>>
    /\ calls = <<>>

\* The caller adds a product, so far without ingredients, to the list.
AddProduct ==
    /\ pc = "input"
    /\ Len(products) < MaxProducts
    /\ products' = Append(products,
                          [name |-> ProductName(Len(products) + 1),
                           ingredients |-> <<>>])
    /\ UNCHANGED <<time, profile, pc, routine, analysis, reanalysis>>
    /\ UNCHANGED <<suggestVars, report, advisorVars>>

\* The caller adds an ingredient id to the last product of the list.
AddIngredient(id) ==
    /\ pc = "input"
    /\ products # <<>>
    /\ Len(get_all_ingredients(products)) < MaxIngredients
    /\ products' = [products EXCEPT ![Len(products)].ingredients = Append(@, id)]
    /\ UNCHANGED <<time, profile, pc, routine, analysis, reanalysis>>
    /\ UNCHANGED <<suggestVars, report, advisorVars>>

\* The caller adds product i of the list to the list once more.
AddCopy(i) ==
    /\ pc = "input"
    /\ i \in DOMAIN products
    /\ Len(products) < MaxProducts
    /\ Len(get_all_ingredients(products)) + Len(products[i].ingredients)
         <= MaxIngredients
    /\ products' = Append(products, products[i])
    /\ UNCHANGED <<time, profile, pc, routine, analysis, reanalysis>>
    /\ UNCHANGED <<suggestVars, report, advisorVars>>

\* build_routine(products, t, prof)
Build(t, prof) ==
    /\ pc = "input"
    /\ LET built == build_routine(products, t, prof)
       IN  /\ routine' = built[1]
           /\ analysis' = <<built[2]>>
    /\ time' = t
    /\ profile' = prof
    /\ pc' = "built"
    /\ UNCHANGED <<products, reanalysis>>
    /\ UNCHANGED <<suggestVars, report, advisorVars>>

\* analyze_routine(routine, profile) on the routine build_routine returned.
ReAnalyze ==
    /\ pc = "built"
    /\ reanalysis' = <<analyze_routine(routine, profile)>>
    /\ pc' = "reanalyzed"
    /\ UNCHANGED <<products, time, profile, routine, analysis>>
    /\ UNCHANGED <<suggestVars, report, advisorVars>>

\* analyze_routine(Routine(t, steps), prof) with the products as the steps,
\* in the order given.
Analyze(t, prof) ==
    /\ pc = "input"
    /\ LET r == [time |-> t, steps |-> StepsAsGiven(products, 1)]
       IN  /\ routine' = r
           /\ analysis' = <<analyze_routine(r, prof)>>
    /\ time' = t
    /\ profile' = prof
    /\ pc' = "analyzed"
    /\ UNCHANGED <<products, reanalysis>>
    /\ UNCHANGED <<suggestVars, report, advisorVars>>

\* The knowledge graph's list of recommendations gets one more ingredient.
Recommend(id) ==
    /\ pc = "input"
    /\ Len(recommended) < MaxRecommended
    /\ \A i \in DOMAIN recommended : recommended[i] # id
    /\ recommended' = Append(recommended, id)
    /\ UNCHANGED <<builderVars, suggested, report, advisorVars>>

\* suggest_routine(prof, t, budget)
Suggest(t, prof, budget) ==
    /\ pc = "input"
    /\ IsRecommendation(recommended, prof[1])
    /\ suggested' = suggest_routine(Ingredients(recommended), prof[1], t, budget)
    /\ time' = t
    /\ profile' = prof
    /\ pc' = "suggested"
    /\ UNCHANGED <<products, routine, analysis, reanalysis, recommended,
                   report, advisorVars>>

\* compare_products(product_a, product_b) on the ingredient lists of two
\* products.
Compare ==
    /\ pc = "input"
    /\ Len(products) = 2
    /\ report' = compare_products(products[1].ingredients,
                                  products[2].ingredients)
    /\ pc' = "compared"
    /\ UNCHANGED <<products, time, profile, routine, analysis, reanalysis,
                   suggestVars, advisorVars>>

\* analyze_ingredient_list(ingredient_names) on the ingredient list of one
\* product.
AnalyzeList ==
    /\ pc = "input"
    /\ Len(products) = 1
    /\ report' = analyze_ingredient_list(products[1].ingredients)
    /\ pc' = "listed"
    /\ UNCHANGED <<products, time, profile, routine, analysis, reanalysis,
                   suggestVars, advisorVars>>

\* The user types one more phrase of the question.
AddPhrase(phrase) ==
    /\ pc = "input"
    /\ phrases < MaxPhrases
    /\ question' = [question EXCEPT !.words = @ \o phrase]
    /\ phrases' = phrases + 1
    /\ UNCHANGED <<builderVars, suggestVars, report, reply, calls>>

\* ask(question, prof), the question written with or without a capital
\* and with or without the mark.
Ask(capital, mark, prof) ==
    /\ pc = "input"
    /\ question.words # <<>>
    /\ LET Answered(asked, answered) ==
               /\ question' = asked
               /\ reply' = <<[classified |-> answered.classified,
                              result |-> answered.result]>>
               /\ calls' = answered.calls
           Written(asked) == Answered(asked, ask(asked, prof))
       IN  Written([words |-> IF capital
                              THEN <<Capitalized(Head(question.words))>>
                                   \o Tail(question.words)
                              ELSE question.words,
                    mark |-> mark])
    /\ profile' = prof
    /\ pc' = "asked"
    /\ UNCHANGED <<products, time, routine, analysis, reanalysis,
                   suggestVars, report, phrases>>

NextAdvisor ==
    \/ \E phrase \in Phrases : AddPhrase(phrase)
    \/ \E style \in AskStyles :
          Ask(style.capital, style.mark, style.profile)

NextCopies ==
    \/ AddProduct
    \/ \E id \in CopyIds : AddIngredient(id)
    \/ \E i \in 1..MaxProducts : AddCopy(i)
    \/ \E t \in RoutineTime, prof \in Profiles : Build(t, prof)

NextMixed ==
    \/ AddProduct
    \/ \E id \in MixedIds : AddIngredient(id)
    \/ \E t \in RoutineTime, prof \in Profiles : Build(t, prof)
    \/ ReAnalyze
    \/ \E t \in RoutineTime, prof \in Profiles : Analyze(t, prof)

NextAnalyzer ==
    \/ AddProduct
    \/ \E id \in Names : AddIngredient(id)
    \/ Compare
    \/ AnalyzeList

NextSuggest ==
    \/ \E id \in KnownIds : Recommend(id)
    \/ \E t \in RoutineTime, prof \in SuggestProfiles, budget \in Budgets :
          Suggest(t, prof, budget)

NextBuild ==
    \/ AddProduct
    \/ \E id \in Ids : AddIngredient(id)
    \/ \E t \in RoutineTime, prof \in Profiles : Build(t, prof)

NextReanalyze ==
    \/ AddProduct
    \/ \E id \in Ids : AddIngredient(id)
    \/ \E t \in RoutineTime, prof \in Profiles : Build(t, prof)
    \/ ReAnalyze

NextAnalyze ==
    \/ AddProduct
    \/ \E id \in Ids : AddIngredient(id)
    \/ \E t \in RoutineTime, prof \in Profiles : Analyze(t, prof)

Next ==
    \/ AddProduct
    \/ \E id \in Ids : AddIngredient(id)
    \/ \E t \in RoutineTime, prof \in Profiles : Build(t, prof)
    \/ ReAnalyze
    \/ \E t \in RoutineTime, prof \in Profiles : Analyze(t, prof)
    \/ \E id \in KnownIds : Recommend(id)
    \/ \E t \in RoutineTime, prof \in SuggestProfiles, budget \in Budgets :
          Suggest(t, prof, budget)
    \/ \E id \in Names : AddIngredient(id)
    \/ Compare
    \/ AnalyzeList
    \/ \E phrase \in Phrases : AddPhrase(phrase)
    \/ \E style \in AskStyles :
          Ask(style.capital, style.mark, style.profile)
    \/ \E i \in 1..MaxProducts : AddCopy(i)
    \/ \E id \in CopyIds : AddIngredient(id)

\* Every operation.
Spec == Init /\ [][Next]_vars

\* build_routine on every product list.
SpecBuild == Init /\ [][NextBuild]_vars

\* build_routine, then analyze_routine again on the routine it returned.
SpecReanalyze == Init /\ [][NextReanalyze]_vars

\* analyze_routine on every list of steps, sorted or not.
SpecAnalyze == Init /\ [][NextAnalyze]_vars

\* build_routine and analyze_routine on lists with ids the catalog has not.
SpecMixed == Init /\ [][NextMixed]_vars

\* The RoutineAnalyzer on every list of names and pair of lists.
SpecAnalyzer == Init /\ [][NextAnalyzer]_vars

\* build_routine on lists that may hold a product more than once.
SpecCopies == Init /\ [][NextCopies]_vars

\* The advisor on every question made of the phrases.
SpecAdvisor == Init /\ [][NextAdvisor]_vars

\* suggest_routine on every list of recommendations.
SpecSuggest == Init /\ [][NextSuggest]_vars

----------------------------------------------------------------------------
\* Vocabulary of the properties, stated without the builder's own loops.

Resolves(id) == get_ingredient(id) # <<>>

\* The minimum application_order among the ids that resolve, 5 when none does.
EffectiveOrder(ingredient_ids) ==
    LET known == { k \in 1..Len(ingredient_ids) : Resolves(ingredient_ids[k]) }
        orders == { get_ingredient(ingredient_ids[k])[1].application_order : k \in known }
    IN  IF known = {} THEN 5
        ELSE CHOOSE m \in orders : \A o \in orders : m <= o

\* Pairs of steps i before j with order(i) > order(j).
Inversions(steps) ==
    { pair \in (1..Len(steps)) \X (1..Len(steps)) :
        /\ pair[1] < pair[2]
        /\ EffectiveOrder(steps[pair[1]].ingredients)
             > EffectiveOrder(steps[pair[2]].ingredients) }

\* Pairs of positions of an id list whose ingredients have a CONFLICT record.
ConflictPairs(ids) ==
    { pair \in (1..Len(ids)) \X (1..Len(ids)) :
        /\ pair[1] < pair[2]
        /\ get_interaction(ids[pair[1]], ids[pair[2]]) # <<>>
        /\ get_interaction(ids[pair[1]], ids[pair[2]])[1].kind = "CONFLICT" }

\* The place of product a in the one arrangement that lists the products by
\* ascending effective order with equal orders in input order: after every
\* product of lower order and every earlier product of the same order.
StablePlace(prods, a) ==
    LET key == [i \in 1..Len(prods) |-> EffectiveOrder(prods[i].ingredients)]
    IN  1 + Cardinality({ b \in 1..Len(prods) :
                            \/ key[b] < key[a]
                            \/ key[b] = key[a] /\ b < a })

\* The positive waits between an ingredient of one list and one of the other.
CrossWaits(current, next) ==
    { get_interaction(current[x], next[y])[1].wait_minutes :
        <<x, y>> \in { q \in (1..Len(current)) \X (1..Len(next)) :
                         /\ get_interaction(current[q[1]], next[q[2]]) # <<>>
                         /\ get_interaction(current[q[1]], next[q[2]])[1].wait_minutes > 0 } }

MaxOf(S) == CHOOSE m \in S : \A o \in S : o <= m

AllIngredients == get_all_ingredients(routine.steps)

----------------------------------------------------------------------------
\* C1: analyze_routine returns is_valid = true exactly when the compatibility
\* result has no conflict and the ordering check has no issue; cautions,
\* synergies, missing essentials and suggestions do not enter into it.
C1_IsValidIffNoConflictNoOrderingIssue ==
    pc = "analyzed" =>
        /\ analysis[1].is_valid
             = (/\ Len(check_compatibility(AllIngredients).conflicts) = 0
                /\ Len(check_ordering(routine)) = 0)
        /\ analysis[1].is_valid
             = (ConflictPairs(AllIngredients) = {} /\ Inversions(routine.steps) = {})

\* A valid routine that has cautions, synergies, missing essentials and suggestions.
C1_Witness ==
    /\ pc = "analyzed"
    /\ analysis[1].is_valid
    /\ analysis[1].cautions # <<>>
    /\ analysis[1].synergies # <<>>
    /\ analysis[1].missing_essentials # <<>>
    /\ analysis[1].suggestions # <<>>

\* C2: build_routine lists the products by ascending effective order (the
\* minimum application_order among the ingredients that resolve, 5 when none
\* does), products of equal order in input order, and numbers the steps 1..n.
C2_StableAscendingSort ==
    pc = "built" =>
        LET key == [i \in 1..Len(routine.steps) |->
                      EffectiveOrder(routine.steps[i].ingredients)]
        IN  /\ Len(routine.steps) = Len(products)
            /\ \A i \in 1..Len(routine.steps) : routine.steps[i].order = i
            /\ \A a \in 1..Len(products) :
                 LET step == routine.steps[StablePlace(products, a)]
                 IN  /\ step.product_name = products[a].name
                     /\ step.ingredients = products[a].ingredients
            /\ \A i, j \in 1..Len(routine.steps) : i < j => key[i] <= key[j]

\* Three products, two of equal order whose ingredients differ, one that the
\* sort had to move, and one whose minimum is not its first resolving ingredient.
C2_Witness ==
    /\ pc = "built"
    /\ Len(products) = 3
    /\ \E i, j \in 1..3 :
         /\ i < j
         /\ EffectiveOrder(products[i].ingredients) = EffectiveOrder(products[j].ingredients)
         /\ products[i].ingredients # products[j].ingredients
    /\ routine.steps[1].product_name # products[1].name
    /\ \E i \in 1..3 :
         /\ Len(products[i].ingredients) = 2
         /\ Resolves(products[i].ingredients[1])
         /\ EffectiveOrder(products[i].ingredients)
              < get_ingredient(products[i].ingredients[1])[1].application_order

\* C3: in the routine build_routine returns, wait_after of a step that has a
\* successor is the maximum wait_minutes over the pairs (ingredient of the step,
\* ingredient of the next step), 0 when no pair has a positive wait, and
\* wait_after of the last step is 0.
C3_WaitAfterIsMaxCrossWait ==
    pc = "built" =>
        \A k \in 1..Len(routine.steps) :
            IF k < Len(routine.steps)
            THEN routine.steps[k].wait_after
                   = MaxOf({0} \cup CrossWaits(routine.steps[k].ingredients,
                                               routine.steps[k + 1].ingredients))
            ELSE routine.steps[k].wait_after = 0

\* A step whose pairs with the next step carry two different positive waits,
\* the larger one met first.
C3_Witness ==
    /\ pc = "built"
    /\ \E k \in 1..(Len(routine.steps) - 1) :
         LET cur == routine.steps[k].ingredients
             nxt == routine.steps[k + 1].ingredients
         IN  /\ Cardinality(CrossWaits(cur, nxt)) = 2
             /\ Len(cur) = 1
             /\ get_interaction(cur[1], nxt[1]) # <<>>
             /\ get_interaction(cur[1], nxt[1])[1].wait_minutes
                  = MaxOf(CrossWaits(cur, nxt))
             /\ routine.steps[k].wait_after = MaxOf(CrossWaits(cur, nxt))

\* The positions, in a product's ingredient list, of the resolving ingredients
\* restricted to the other time of day.
Offending(ingredient_ids, t) ==
    { k \in 1..Len(ingredient_ids) :
        /\ Resolves(ingredient_ids[k])
        /\ get_ingredient(ingredient_ids[k])[1].time_of_day
             = (IF t = AM THEN "PM_ONLY" ELSE "AM_ONLY") }

WithoutNotes(steps) ==
    [k \in 1..Len(steps) |-> [steps[k] EXCEPT !.notes = ""]]

\* C4: a step of build_routine has a note exactly when one of its resolving
\* ingredients is restricted to the other time of day; the note names the first
\* such ingredient of the product; and but for the notes the steps are those of
\* a build for the other time of day, one step per product.
C4_NotesFlagOnly ==
    pc = "built" =>
        /\ \A i \in 1..Len(routine.steps) :
             LET off == Offending(routine.steps[i].ingredients, time)
                 first == CHOOSE k \in off : \A o \in off : k <= o
                 name == get_ingredient(routine.steps[i].ingredients[first])[1].name
             IN  /\ (routine.steps[i].notes # "") = (off # {})
                 /\ off # {} =>
                      routine.steps[i].notes
                        = name \o (IF time = AM THEN " should only be used at night"
                                   ELSE " should only be used in the morning")
        /\ Len(routine.steps) = Len(products)
        /\ WithoutNotes(BuildRoutine(products, IF time = AM THEN PM ELSE AM).steps)
             = WithoutNotes(routine.steps)

\* A step with two offending ingredients after an unknown id, the first of
\* them not the one of lowest application order.
C4_Witness ==
    /\ pc = "built"
    /\ \E i \in 1..Len(routine.steps) :
         /\ routine.steps[i].ingredients = <<"mystery", "spf", "vitamin_c">>
         /\ routine.steps[i].notes = "Sunscreen should only be used in the morning"

\* C5: the ordering check reports one issue for every pair of steps i before j
\* with order(i) > order(j), adjacent or not, and nothing else: the issues are
\* as many as the inversions, and none when the steps are in non-decreasing order.
C5_OneIssuePerInversion ==
    pc = "analyzed" =>
        /\ Len(analysis[1].ordering_issues) = Cardinality(Inversions(routine.steps))
        /\ Range(analysis[1].ordering_issues)
             = { OrderingIssue(routine.steps, pair[1], pair[2]) :
                   pair \in Inversions(routine.steps) }
        /\ (\A i, j \in 1..Len(routine.steps) :
              i < j => EffectiveOrder(routine.steps[i].ingredients)
                         <= EffectiveOrder(routine.steps[j].ingredients))
             => analysis[1].ordering_issues = <<>>

\* Three steps in strictly decreasing order: three issues, one of them for the
\* pair (1, 3) that is not adjacent.
C5_Witness ==
    /\ pc = "analyzed"
    /\ Len(routine.steps) = 3
    /\ Len(analysis[1].ordering_issues) = 3
    /\ <<1, 3>> \in Inversions(routine.steps)

\* C6: when exactly two ingredients of a routine are in CONFLICT (one pair of
\* positions), the analysis is invalid, its conflicts list has exactly one
\* entry, for that pair, and the suggestions hold the removal suggestion that
\* names both ingredients.
C6_ConflictScenario ==
    pc = "analyzed" =>
        \A pair \in ConflictPairs(AllIngredients) :
            ConflictPairs(AllIngredients) = {pair} =>
                LET a == AllIngredients[pair[1]]
                    b == AllIngredients[pair[2]]
                    rec == get_interaction(a, b)[1].recommendation
                IN  /\ analysis[1].is_valid = FALSE
                    /\ Len(analysis[1].conflicts) = 1
                    /\ analysis[1].conflicts[1].ingredient_a = a
                    /\ analysis[1].conflicts[1].ingredient_b = b
                    /\ ("Consider removing one of: " \o a \o " or " \o b \o ". " \o rec)
                         \in Range(analysis[1].suggestions)

\* Two conflicting ingredients in two steps that are in the right order, so
\* that the conflict alone invalidates the routine.
C6_Witness ==
    /\ pc = "analyzed"
    /\ Cardinality(ConflictPairs(AllIngredients)) = 1
    /\ Len(routine.steps) = 2
    /\ routine.steps[1].ingredients = <<"benzoyl_peroxide">>
    /\ routine.steps[2].ingredients = <<"retinol">>
    /\ analysis[1].ordering_issues = <<>>
    /\ ~analysis[1].is_valid

SunscreenPresent ==
    \E k \in 1..Len(AllIngredients) :
        /\ Resolves(AllIngredients[k])
        /\ get_ingredient(AllIngredients[k])[1].category = "sunscreen"

\* The routine with one more step, holding the one ingredient id.
WithStep(r, id) ==
    [r EXCEPT !.steps = Append(@, RoutineStep(Len(@) + 1, "Added", <<id>>, 0, ""))]

\* C7 as stated, the message with the dash (U+2014) it is quoted with: a morning
\* routine without a sunscreen-category ingredient has
\* "Sunscreen (SPF) [U+2014] essential for morning routine" among its missing
\* essentials.
C7_MessageAsQuoted ==
    (pc = "analyzed" /\ time = AM /\ ~SunscreenPresent) =>
        "Sunscreen (SPF) \\u2014 essential for morning routine"
            \in Range(analysis[1].missing_essentials)

\* C7 (amended): a morning routine without a sunscreen-category ingredient has
\* "Sunscreen (SPF) - essential for morning routine" (an ASCII hyphen) among its
\* missing essentials; with such an ingredient, or one more step that holds one,
\* it does not; an evening routine never has it.
C7_SunscreenEssential ==
    pc = "analyzed" =>
        /\ ("Sunscreen (SPF) - essential for morning routine"
              \in Range(analysis[1].missing_essentials))
             = (time = AM /\ ~SunscreenPresent)
        /\ "Sunscreen (SPF) - essential for morning routine"
             \notin Range(analyze_routine(WithStep(routine, "spf"), profile).missing_essentials)

\* A morning routine of known and unknown ingredients, none a sunscreen, that
\* has the message.
C7_Witness ==
    /\ pc = "analyzed"
    /\ time = AM
    /\ Len(routine.steps) = 2
    /\ "mystery" \in Range(AllIngredients)
    /\ "ceramides" \in Range(AllIngredients)
    /\ analysis[1].missing_essentials
         = <<"Sunscreen (SPF) - essential for morning routine">>

MoisturizerPresent ==
    \E k \in 1..Len(AllIngredients) :
        /\ Resolves(AllIngredients[k])
        /\ get_ingredient(AllIngredients[k])[1].category \in {"moisturizer", "ceramide"}

\* C8: morning or evening, analyze_routine reports the missing moisturizer
\* exactly when no ingredient of the routine resolves to a catalog ingredient of
\* category moisturizer or ceramide; an id that does not resolve never counts.
C8_MoisturizerEssential ==
    pc = "analyzed" =>
        ("Moisturizer - needed to maintain skin barrier"
           \in Range(analysis[1].missing_essentials))
          = ~MoisturizerPresent

\* An evening routine whose ceramide, beside an unknown id, satisfies the
\* requirement.
C8_Witness ==
    /\ pc = "analyzed"
    /\ time = PM
    /\ "mystery" \in Range(AllIngredients)
    /\ "ceramides" \in Range(AllIngredients)
    /\ analysis[1].missing_essentials = <<>>

RetinoidDue ==
    /\ profile # NoProfile
    /\ "aging" \in profile[1].concerns
    /\ time = PM
    /\ ~\E k \in 1..Len(AllIngredients) :
          /\ Resolves(AllIngredients[k])
          /\ get_ingredient(AllIngredients[k])[1].category = "retinoid"

\* C9: the suggestions are one wait suggestion per entry of the compatibility
\* wait_times, then one removal suggestion per conflict, then the retinoid
\* suggestion, present exactly when a profile is given whose concerns include
\* AGING, the routine is an evening one and holds no retinoid.
C9_SuggestionsThreeSources ==
    pc = "analyzed" =>
        LET c == check_compatibility(AllIngredients)
            w == Len(c.wait_times)
            n == Len(c.conflicts)
            sug == analysis[1].suggestions
        IN  /\ Len(sug) = w + n + (IF RetinoidDue THEN 1 ELSE 0)
            /\ \A k \in 1..w :
                 sug[k] = "Wait 20-30 minutes between " \o c.wait_times[k].ingredient_a
                            \o " and " \o c.wait_times[k].ingredient_b
            /\ \A k \in 1..n :
                 sug[w + k] = "Consider removing one of: " \o c.conflicts[k].ingredient_a
                                \o " or " \o c.conflicts[k].ingredient_b
                                \o ". " \o c.conflicts[k].recommendation
            /\ RetinoidDue =>
                 sug[w + n + 1] = "Consider adding a retinoid for anti-aging (PM routine only)"

\* All three sources at once: a wait, a conflict and the retinoid suggestion.
C9_Witness ==
    /\ pc = "analyzed"
    /\ RetinoidDue
    /\ Len(analysis[1].conflicts) = 1
    /\ Len(check_compatibility(AllIngredients).wait_times) = 1
    /\ Len(analysis[1].suggestions) = 3
    /\ analysis[1].suggestions[3]
         = "Consider adding a retinoid for anti-aging (PM routine only)"

----------------------------------------------------------------------------
\* suggest_routine.

\* The positions of the suggestions whose step is named so.
StepsNamed(sugg, name) == { i \in DOMAIN sugg : sugg[i].step = name }

\* The positions of the treatment suggestions.
TreatmentPositions(sugg) ==
    { i \in DOMAIN sugg : sugg[i].priority = "recommended" }

\* The ingredient ids of the treatment suggestions, in their order.
RECURSIVE TreatmentIds(_)
TreatmentIds(sugg) ==
    IF sugg = <<>> THEN <<>>
    ELSE IF Head(sugg).priority = "recommended"
         THEN Head(sugg).ingredients \o TreatmentIds(Tail(sugg))
         ELSE TreatmentIds(Tail(sugg))

\* The position of id in a list without repetitions that holds it.
PositionIn(ids, id) == CHOOSE i \in DOMAIN ids : ids[i] = id

\* C11: the list suggest_routine returns starts with the Cleanser step, has
\* exactly one Cleanser step and exactly one Moisturizer step, the
\* Moisturizer step after every treatment step, and ends with the Sunscreen
\* step exactly when the time is AM; for PM the Moisturizer step is last.
C11_SuggestionFrame ==
    pc = "suggested" =>
        LET n == Len(suggested)
        IN  /\ n >= 2
            /\ suggested[1].step = "Cleanser"
            /\ StepsNamed(suggested, "Cleanser") = {1}
            /\ Cardinality(StepsNamed(suggested, "Moisturizer")) = 1
            /\ \A m \in StepsNamed(suggested, "Moisturizer") :
                   /\ \A i \in TreatmentPositions(suggested) : i < m
                   /\ time = PM => m = n
                   /\ time = AM => m = n - 1
            /\ (suggested[n].step = "Sunscreen (SPF 30+)") <=> (time = AM)
            /\ \A i \in DOMAIN suggested :
                   \/ i \in TreatmentPositions(suggested)
                   \/ suggested[i].step \in {"Cleanser", "Moisturizer"}
                   \/ i = n /\ time = AM

\* An evening suggestion with two treatment steps before the Moisturizer.
C11_Witness ==
    /\ pc = "suggested"
    /\ time = PM
    /\ Cardinality(TreatmentPositions(suggested)) = 2
    /\ suggested[Len(suggested)].step = "Moisturizer"

\* C12: there are at most five treatment steps, no two of them hold
\* ingredients of the same category, each holds one ingredient of the
\* recommendation list, they follow that list's order, and none is PM_ONLY
\* in an AM suggestion or AM_ONLY in a PM suggestion.
C12_TreatmentsFromRecommendations ==
    pc = "suggested" =>
        LET ids == TreatmentIds(suggested)
        IN  /\ Len(ids) = Cardinality(TreatmentPositions(suggested))
            /\ Len(ids) <= 5
            /\ \A i, j \in DOMAIN ids :
                   i # j => Catalog(ids[i]).category # Catalog(ids[j]).category
            /\ \A i \in DOMAIN ids : ids[i] \in Range(recommended)
            /\ \A i, j \in DOMAIN ids :
                   i < j => PositionIn(recommended, ids[i])
                              < PositionIn(recommended, ids[j])
            /\ \A i \in DOMAIN ids :
                   /\ time = AM => Catalog(ids[i]).time_of_day # "PM_ONLY"
                   /\ time = PM => Catalog(ids[i]).time_of_day # "AM_ONLY"

\* A morning suggestion from a list that starts with the PM_ONLY retinol and
\* holds two ingredients of one category: retinol is left out, and so is
\* the second of the category.
C12_Witness ==
    /\ pc = "suggested"
    /\ time = AM
    /\ Len(recommended) >= 4
    /\ recommended[1] = "retinol"
    /\ \E i, j \in DOMAIN recommended :
          /\ i < j
          /\ Catalog(recommended[i]).category = Catalog(recommended[j]).category
          /\ recommended[j] \notin Range(TreatmentIds(suggested))
    /\ Len(TreatmentIds(suggested)) >= 2

----------------------------------------------------------------------------
\* RoutineAnalyzer and check_compatibility.

\* Pairs of positions of an id list whose ingredients have a record of the
\* kind.
PairsOfKind(ids, kind) ==
    { pair \in (1..Len(ids)) \X (1..Len(ids)) :
        /\ pair[1] < pair[2]
        /\ get_interaction(ids[pair[1]], ids[pair[2]]) # <<>>
        /\ get_interaction(ids[pair[1]], ids[pair[2]])[1].kind = kind }

\* The two ingredient lists compare_products was given, concatenated.
Compared == products[1].ingredients \o products[2].ingredients

\* C13: compare_products reports the conflicts, cautions and synergies among
\* the concatenation of the two lists and exactly one of the four fixed
\* recommendations: do-not-combine when there is a conflict, else
\* use-with-caution when there is a caution, else great-combination when
\* there is a synergy, else no-known-interactions; can_use_together is false
\* exactly when the recommendation is do-not-combine.
C13_RecommendationByPriority ==
    pc = "compared" =>
        /\ Len(report.conflicts) = Cardinality(PairsOfKind(Compared, "CONFLICT"))
        /\ Len(report.cautions) = Cardinality(PairsOfKind(Compared, "CAUTION"))
        /\ Len(report.synergies) = Cardinality(PairsOfKind(Compared, "SYNERGY"))
        /\ report.recommendation =
              (IF PairsOfKind(Compared, "CONFLICT") # {} THEN DoNotCombine
               ELSE IF PairsOfKind(Compared, "CAUTION") # {} THEN UseWithCaution
               ELSE IF PairsOfKind(Compared, "SYNERGY") # {} THEN GreatCombination
               ELSE NoKnownInteractions)
        /\ report.can_use_together <=> report.recommendation # DoNotCombine

\* Two products with a conflict and a caution between them: the conflict
\* decides.
C13_Witness ==
    /\ pc = "compared"
    /\ report.conflicts # <<>>
    /\ report.cautions # <<>>
    /\ report.recommendation = DoNotCombine
    /\ ~report.can_use_together

\* The names analyze_ingredient_list was given.
Listed == products[1].ingredients

\* The number of positions up to k of the list whose names resolve (known)
\* or do not.
RankAmong(names, k, known) ==
    Cardinality({ j \in 1..k : Resolves(names[j]) = known })

\* C14: analyze_ingredient_list splits the names into identified_ingredients
\* (the names that resolve, as entries of the ingredients they resolve to)
\* and unrecognized (the others), each in the order of the input; the two
\* lengths add up to the length of the input; and the compatibility reported
\* is check_compatibility of the ids of the identified ingredients.
C14_PartitionOfNames ==
    pc = "listed" =>
        /\ Len(report.identified_ingredients) + Len(report.unrecognized)
             = Len(Listed)
        /\ \A k \in DOMAIN Listed :
               IF Resolves(Listed[k])
               THEN LET e == report.identified_ingredients[RankAmong(Listed, k, TRUE)]
                    IN  /\ e.id = get_ingredient(Listed[k])[1].id
                        /\ e.name = get_ingredient(Listed[k])[1].name
               ELSE report.unrecognized[RankAmong(Listed, k, FALSE)] = Listed[k]
        /\ report.compatibility =
              check_compatibility(
                  [i \in DOMAIN report.identified_ingredients |->
                     report.identified_ingredients[i].id])

\* A list with a display name that resolves, an unknown name, and an id that
\* has a synergy with the first: two identified, one unrecognized.
C14_Witness ==
    /\ pc = "listed"
    /\ Listed = <<"Vitamin C", "mystery", "spf">>
    /\ Len(report.identified_ingredients) = 2
    /\ report.unrecognized = <<"mystery">>
    /\ Len(report.compatibility.synergies) = 1

\* The ids check_compatibility was given by the analyzer.
Checked ==
    IF pc = "compared" THEN Compared
    ELSE [i \in DOMAIN report.identified_ingredients |->
            report.identified_ingredients[i].id]

\* The compatibility result behind the analyzer's report.
Compatibility ==
    IF pc = "compared"
    THEN [is_compatible |-> report.can_use_together,
          conflicts |-> report.conflicts, cautions |-> report.cautions,
          synergies |-> report.synergies,
          wait_times |-> check_compatibility(Compared).wait_times]
    ELSE report.compatibility

\* C15: check_compatibility reports is_compatible exactly when it reports
\* no conflict, which is exactly when no pair of the ids has a CONFLICT
\* record; for no id or a single id it reports is_compatible and four empty
\* lists.
C15_CompatibleIffNoConflict ==
    pc \in {"compared", "listed"} =>
        /\ Compatibility.is_compatible <=> Compatibility.conflicts = <<>>
        /\ Compatibility.is_compatible <=> PairsOfKind(Checked, "CONFLICT") = {}
        /\ Len(Checked) <= 1 =>
              /\ Compatibility.is_compatible
              /\ Compatibility.conflicts = <<>>
              /\ Compatibility.cautions = <<>>
              /\ Compatibility.synergies = <<>>
              /\ Compatibility.wait_times = <<>>

\* A single resolved name, and nothing found about it.
C15_Witness ==
    /\ pc = "listed"
    /\ Len(report.identified_ingredients) = 1
    /\ report.compatibility.is_compatible
    /\ report.compatibility.wait_times = <<>>

----------------------------------------------------------------------------
\* Symmetry, unknown ids and empty lists, the order of a built routine.

\* C16: get_interaction(a, b) = get_interaction(b, a) for all ids a and b
\* (here: every two ids of the products, which range over all ids),
\* and so the wait time between two products is the same whichever is the
\* current step and whichever the next: the wait_after of each step of the
\* built routine is also the wait computed from the next step to it.
C16_SymmetricLookupAndWait ==
    pc = "built" =>
        /\ \A a, b \in Range(get_all_ingredients(products)) :
               get_interaction(a, b) = get_interaction(b, a)
        /\ \A i, j \in DOMAIN products :
               i < j =>
                 calculate_wait_time(products[i].ingredients, products[j].ingredients)
                   = calculate_wait_time(products[j].ingredients, products[i].ingredients)
        /\ \A i \in 1..(Len(routine.steps) - 1) :
               routine.steps[i].wait_after
                 = calculate_wait_time(routine.steps[i + 1].ingredients,
                                       routine.steps[i].ingredients)

\* A step with a wait that comes from a record filed under the ingredient of
\* the next step first and the ingredient of this step second.
C16_Witness ==
    /\ pc = "built"
    /\ \E i \in 1..(Len(routine.steps) - 1) :
          /\ routine.steps[i].wait_after > 0
          /\ \E r \in Interactions :
                /\ r.wait_minutes = routine.steps[i].wait_after
                /\ r.ingredient_a \in Range(routine.steps[i + 1].ingredients)
                /\ r.ingredient_b \in Range(routine.steps[i].ingredients)

\* A list of ids without those that are not in the catalog.
KnownOnly(ids) == SelectSeq(ids, Resolves)

\* Products or steps, each without the ids that are not in the catalog.
RECURSIVE WithoutUnknown(_)
WithoutUnknown(items) ==
    IF items = <<>> THEN <<>>
    ELSE <<[Head(items) EXCEPT !.ingredients = KnownOnly(@)]>>
         \o WithoutUnknown(Tail(items))

\* A well-formed analysis: a flag and six lists.
WellFormed(a) ==
    /\ a.is_valid \in BOOLEAN
    /\ \A f \in {"conflicts", "cautions", "synergies", "ordering_issues",
                  "missing_essentials", "suggestions"} :
           DOMAIN a[f] = 1..Len(a[f])

\* C17: build_routine and analyze_routine give a result on every product
\* list, and the ids that are not in the catalog count for nothing: the
\* routine built and its analysis are those of the products with these ids
\* left out, the ingredient lists of the steps apart, and so is the analysis
\* analyze_routine returns, be it for the routine built or for the products
\* as given; no product gives no step and an analysis without
\* conflict, caution, synergy or ordering issue, which is valid.
C17_UnknownIdsCountForNothing ==
    /\ pc \in {"built", "reanalyzed"} =>
          LET known == build_routine(WithoutUnknown(products), time, profile)
          IN  /\ WellFormed(analysis[1])
              /\ Len(routine.steps) = Len(known[1].steps)
              /\ \A i \in DOMAIN routine.steps :
                     /\ routine.steps[i].order = known[1].steps[i].order
                     /\ routine.steps[i].product_name = known[1].steps[i].product_name
                     /\ routine.steps[i].wait_after = known[1].steps[i].wait_after
                     /\ routine.steps[i].notes = known[1].steps[i].notes
                     /\ KnownOnly(routine.steps[i].ingredients)
                          = known[1].steps[i].ingredients
              /\ analysis[1] = known[2]
              /\ products = <<>> =>
                    /\ routine.steps = <<>>
                    /\ analysis[1].is_valid
                    /\ \A f \in {"conflicts", "cautions", "synergies",
                                  "ordering_issues"} :
                           analysis[1][f] = <<>>
    /\ pc = "reanalyzed" =>
          /\ WellFormed(reanalysis[1])
          /\ reanalysis[1]
               = analyze_routine([routine EXCEPT !.steps = WithoutUnknown(@)],
                                 profile)
    /\ pc = "analyzed" =>
          /\ WellFormed(analysis[1])
          /\ analysis[1]
               = analyze_routine([routine EXCEPT !.steps = WithoutUnknown(@)],
                                 profile)
          /\ products = <<>> =>
                /\ analysis[1].is_valid
                /\ \A f \in {"conflicts", "cautions", "synergies",
                              "ordering_issues"} :
                       analysis[1][f] = <<>>

\* A routine built from a product with an unknown id next to a known one and
\* a product with only an unknown id, in an order that the ordering check
\* objects to, analyzed as given.
C17_Witness ==
    /\ pc = "analyzed"
    /\ analysis[1].ordering_issues # <<>>
    /\ \E i, j \in DOMAIN products :
          /\ Len(products[i].ingredients) = 1
          /\ ~Resolves(products[i].ingredients[1])
          /\ Len(products[j].ingredients) = 2
          /\ \E k \in 1..2 : ~Resolves(products[j].ingredients[k])
          /\ \E k \in 1..2 : Resolves(products[j].ingredients[k])

\* C20: the analysis build_routine returns has no ordering issue, whatever
\* the products: the key the products are sorted by and the order the
\* ordering check gives a step are the same number for every product, so
\* is_valid holds exactly when no two of the products' ingredients, taken
\* together, have a CONFLICT record.
C20_BuiltRoutineHasNoOrderingIssue ==
    pc = "built" =>
        /\ analysis[1].ordering_issues = <<>>
        /\ \A i \in DOMAIN routine.steps :
               get_step_order(routine.steps[i])
                 = get_product_order(routine.steps[i].ingredients)
        /\ analysis[1].is_valid
             <=> ConflictPairs(get_all_ingredients(products)) = {}

\* Products given in descending order, one of them with two ingredients of
\* different orders, and no conflict: the routine built reverses them and
\* is valid.
C20_Witness ==
    /\ pc = "built"
    /\ Len(products) = 2
    /\ get_product_order(products[1].ingredients)
         > get_product_order(products[2].ingredients)
    /\ \E i \in 1..2 :
          /\ Len(products[i].ingredients) = 2
          /\ Cardinality(Range(ResolvedOrders(products[i].ingredients))) = 2
    /\ routine.steps[1].product_name = products[2].name
    /\ analysis[1].is_valid
    /\ analysis[1].ordering_issues = <<>>

----------------------------------------------------------------------------
\* The calls of the compatibility handler among the calls of the last ask.
CompatibilityCalls ==
    {k \in DOMAIN calls : calls[k].fn = "_handle_compatibility"}

\* The name the handler looks up for an extracted term.
Cleaned(term) == rstrip(term, {"?", ".", ",", "!"})

\* The ids the handler settles on for a cleaned name: the exact record, or
\* the first fuzzy match when there is no exact one, or nothing.
ExactOrTopMatch(name) ==
    IF get_ingredient(Text(name)) # <<>>
    THEN <<get_ingredient(Text(name))[1].id>>
    ELSE IF Len(find_ingredient(name.words)) > 0
         THEN <<find_ingredient(name.words)[1].id>>
         ELSE <<>>

\* A call the compatibility handler made after its k-th call in the log.
MadeAfter(k, fn, arg) ==
    \E j \in (k + 1)..Len(calls) :
        calls[j] = Call(fn, "_handle_compatibility", arg)

----------------------------------------------------------------------------
\* Some reading of the pattern takes the words from word i on: a group
\* takes one word or more, any text takes any number of words, a word of
\* the pattern takes itself.
RECURSIVE FitsAt(_, _, _)
FitsAt(pattern, words, i) ==
    IF pattern = <<>> THEN TRUE
    ELSE IF Head(pattern) = "(.+)"
         THEN \E e \in i..Len(words) : FitsAt(Tail(pattern), words, e + 1)
    ELSE IF Head(pattern) = ".*"
         THEN \E e \in (i - 1)..Len(words) :
                 FitsAt(Tail(pattern), words, e + 1)
    ELSE /\ i <= Len(words)
         /\ words[i] = Head(pattern)
         /\ FitsAt(Tail(pattern), words, i + 1)

\* A pattern of the group occurs somewhere in the words.
GroupFits(patterns, words) ==
    \E k \in DOMAIN patterns :
        \E i \in DOMAIN words : FitsAt(patterns[k], words, i)

\* The rule groups in the order _classify_query consults them.
RuleGroups ==
    << [type |-> COMPATIBILITY, patterns |-> compatibility_patterns,
        handler |-> "_handle_compatibility"],
       [type |-> INGREDIENT_INFO, patterns |-> ingredient_patterns,
        handler |-> "_handle_ingredient_info"],
       [type |-> CONCERN_ADVICE, patterns |-> concern_patterns,
        handler |-> "_handle_concern_advice"],
       [type |-> ROUTINE_HELP, patterns |-> order_patterns,
        handler |-> "_handle_routine_help"] >>

\* The groups a pattern of which occurs in the lowered question asked.
FittingGroups ==
    {g \in DOMAIN RuleGroups :
        GroupFits(RuleGroups[g].patterns, LowerWords(question.words))}

Handlers ==
    {RuleGroups[g].handler : g \in DOMAIN RuleGroups} \cup {"_handle_general"}

\* The handler calls that ask itself made.
RoutedByAsk ==
    {k \in DOMAIN calls : calls[k].by = "ask" /\ calls[k].fn \in Handlers}

\* C19: the type _classify_query returns is that of the first group, in the
\* order compatibility, ingredient-info, concern-advice, routine-order, one
\* of whose patterns occurs in the question, and GENERAL exactly when no
\* pattern of any group occurs; ask then calls one handler and no other,
\* the one of the returned type.
C19_FirstMatchingGroupWins ==
    pc = "asked" =>
        /\ \A g \in FittingGroups :
              (\A h \in FittingGroups : g <= h)
                => reply[1].classified = RuleGroups[g].type
        /\ reply[1].classified = GENERAL <=> FittingGroups = {}
        /\ \E k \in DOMAIN calls : RoutedByAsk = {k}
        /\ \A k \in RoutedByAsk :
              /\ \A g \in DOMAIN RuleGroups :
                    reply[1].classified = RuleGroups[g].type
                      => calls[k].fn = RuleGroups[g].handler
              /\ reply[1].classified = GENERAL
                    => calls[k].fn = "_handle_general"

\* A question in which patterns of the compatibility group and of the
\* ingredient-info group both occur was asked and routed.
C19_Witness ==
    /\ pc = "asked"
    /\ {1, 2} \subseteq FittingGroups
    /\ reply[1].classified = COMPATIBILITY
    /\ \E k \in RoutedByAsk : calls[k].fn = "_handle_compatibility"

----------------------------------------------------------------------------
\* The product a step was made of.
ProductOf(step) == [name |-> step.product_name, ingredients |-> step.ingredients]

\* How often a product occurs in a list of products.
Occurrences(prods, product) ==
    Cardinality({k \in DOMAIN prods : prods[k] = product})

\* How often a product occurs as a step of a list of steps.
StepOccurrences(steps, product) ==
    Cardinality({j \in DOMAIN steps : ProductOf(steps[j]) = product})

\* C21: the steps build_routine returns are a permutation of the products
\* it was given: there are as many steps as products, every step is made of
\* a product of the list with its name and ingredients unchanged, every
\* product, also one that occurs more than once, is a step as often as it
\* occurs, and the caller's list is after the call what it was before.
C21_StepsArePermutationOfProducts ==
    [][(pc = "input" /\ pc' = "built") =>
          /\ products' = products
          /\ Len(routine'.steps) = Len(products)
          /\ \A j \in DOMAIN routine'.steps :
                \E i \in DOMAIN products :
                    ProductOf(routine'.steps[j]) = products[i]
          /\ \A i \in DOMAIN products :
                StepOccurrences(routine'.steps, products[i])
                  = Occurrences(products, products[i])]_vars

\* A routine built of a list that holds one product twice, restricted to the
\* other time of day, and a product that conflicts with it and that the
\* sort moved in front of it.
C21_Witness ==
    /\ pc = "built"
    /\ Len(products) = 3
    /\ \E i, j \in DOMAIN products : i < j /\ products[i] = products[j]
    /\ \E j \in DOMAIN routine.steps : routine.steps[j].notes # ""
    /\ analysis[1].conflicts # <<>>
    /\ ProductOf(routine.steps[1]) # products[1]

----------------------------------------------------------------------------
\* The recommended ids that are not restricted to the other time of day
\* than the one the suggestion was asked for, in the list's order.
AppropriateIds ==
    SelectSeq(recommended,
              LAMBDA id : /\ time = AM => Catalog(id).time_of_day # "PM_ONLY"
                          /\ time = PM => Catalog(id).time_of_day # "AM_ONLY")

\* The positions of the time-appropriate list the treatment loop walks.
Walked == {k \in DOMAIN AppropriateIds : k <= 5}

\* C22: the limit of five cuts the time-filtered recommendation list before
\* the one-per-category skip: the treatment steps are those of the first
\* five time-appropriate ingredients that are the first of their category
\* among these five, and an ingredient at the sixth place or later is not
\* suggested, also when fewer than five treatment steps were made.
C22_LimitBeforeCategorySkip ==
    pc = "suggested" =>
        /\ \A k \in Walked :
              AppropriateIds[k] \in Range(TreatmentIds(suggested))
                <=> \A j \in Walked :
                       j < k => Catalog(AppropriateIds[j]).category
                                  # Catalog(AppropriateIds[k]).category
        /\ \A id \in Range(TreatmentIds(suggested)) :
              \E k \in Walked : AppropriateIds[k] = id
        /\ \A k \in DOMAIN AppropriateIds :
              k >= 6 => AppropriateIds[k] \notin Range(TreatmentIds(suggested))

\* Six time-appropriate recommendations, two of the first five of one
\* category, so that fewer than five treatment steps were made, and the
\* sixth of a category that no treatment step has: it is not suggested.
C22_Witness ==
    /\ pc = "suggested"
    /\ Len(AppropriateIds) >= 6
    /\ Len(TreatmentIds(suggested)) < 5
    /\ \A id \in Range(TreatmentIds(suggested)) :
          Catalog(id).category # Catalog(AppropriateIds[6]).category
    /\ AppropriateIds[6] \notin Range(TreatmentIds(suggested))

====
